---- MODULE Spec2Model ----
(***************************************************************************)
(* x402scan-mcp: the payment negotiation engine (makeRequest,              *)
(* src/src/x402/client.ts) and the authentication engine                   *)
(* (handleAuthedCall, src/src/tools/payment.ts), with the version          *)
(* normalizer they share (src/src/x402/protocol.ts).                       *)
(*                                                                         *)
(* Spec: one logical call is in flight at a time.  Every step that can      *)
(* suspend or throw (fetch, a body read, a library call) is one action;    *)
(* the server and the library are the environment and answer               *)
(* nondeterministically.                                                   *)
(* SpecConc: several calls in flight, interleaved at their awaits.         *)
(* SpecNorm, SpecSelect, SpecSchema, SpecSiwx: the pure functions applied  *)
(* to bounded inputs.                                                      *)
(* SpecKeys: the keystore (src/src/keystore.ts), its calls interleaved at  *)
(* their awaits.                                                           *)
(***************************************************************************)
EXTENDS Integers, Sequences, FiniteSets, TLC

\* ------------------------------------------------------------------ bounds
\* Largest number of entries of the caller-supplied headers object.
MaxCallerHeaders == 2
\* Longest accepts list handed to the pure functions.
MaxAccepts == 2

\* ---------------------------------------------------------- option values
\* A JavaScript value that may be undefined: <<>> is undefined, <<v>> is v.
None == <<>>
Some(v) == <<v>>
IsSome(o) == Len(o) > 0
Get(o) == o[1]
\* A string field whose key is absent from the object.
Absent == "undefined"

\* JavaScript truthiness of a string field: undefined and "" are falsy.
Truthy(s) == s # Absent /\ s # ""

\* ------------------------------------------------------------- the 402 body
\* A raw requirement entry as a server sends it.  amount / maxAmountRequired
\* are Absent (key missing), "" (present and empty) or a value.
Entry(net, amt, maxAmt, res) ==
    [scheme |-> "exact", network |-> net, amount |-> amt,
     maxAmountRequired |-> maxAmt, asset |-> "0xUSDC", payTo |-> "0xPAYTO",
     maxTimeoutSeconds |-> 30, extra |-> Absent, resource |-> res,
     description |-> res, mimeType |-> res]
V1Entry == Entry("base", Absent, "1000", "https://r")
V2Entry == Entry("eip155:8453", "1000", Absent, Absent)
V2EntryB == Entry("base", "2000000", Absent, Absent)
BadEntry == Entry("base", Absent, Absent, Absent)

\* ------------------------------------------------- the sign-in-with-x challenge
RequiredFields == <<"domain", "uri", "version", "chainId", "nonce", "issuedAt">>

GoodInfo(chain) ==
    [domain |-> "api.example.com", uri |-> "https://api.example.com/r",
     version |-> "1", chainId |-> chain, nonce |-> "n0", issuedAt |-> "t0"]

ChainIds == {"eip155:8453", "solana:mainnet", "cosmos:hub"}

\* The challenges a server can issue: well formed on each chain, and with
\* fields missing.
Challenges ==
    {GoodInfo(c) : c \in ChainIds}
    \cup {[GoodInfo("eip155:8453") EXCEPT !.nonce = Absent],
          [GoodInfo("solana:mainnet") EXCEPT !.domain = "", !.issuedAt = Absent],
          [GoodInfo("eip155:8453") EXCEPT !.chainId = Absent]}

\* An extensions map: a set of keys, and the info of 'sign-in-with-x' when that
\* key is present (None: the extension object has no info).
ExtensionMaps ==
    {[keys |-> {}, info |-> None], [keys |-> {"bazaar"}, info |-> None],
     [keys |-> {"sign-in-with-x"}, info |-> None]}
    \cup {[keys |-> {"sign-in-with-x", "bazaar"}, info |-> Some(c)] : c \in Challenges}

\* ---------------------------------------------------- protocol.ts: normalizer
\* isV1Response: version 1, or the first entry has the maxAmountRequired key.
IsV1Response(pr) ==
    IF pr.x402Version = Some(1) THEN TRUE
    ELSE IF IsSome(pr.accepts) /\ Len(Get(pr.accepts)) > 0
         THEN Get(pr.accepts)[1].maxAmountRequired # Absent
         ELSE FALSE

V1RequirementThrows(req) == ~Truthy(req.maxAmountRequired)

\* Mutant: the legacy mapping reads the current amount field.
NormalizeV1Requirement_ReadsAmount(req) ==
    [scheme |-> req.scheme, network |-> req.network,
     amount |-> req.amount, asset |-> req.asset,
     payTo |-> req.payTo, maxTimeoutSeconds |-> req.maxTimeoutSeconds,
     extra |-> req.extra, resource |-> req.resource,
     description |-> req.description, mimeType |-> req.mimeType]

NormalizeV1Requirement(req) ==
    [scheme |-> req.scheme, network |-> req.network,
     amount |-> req.maxAmountRequired, asset |-> req.asset,
     payTo |-> req.payTo, maxTimeoutSeconds |-> req.maxTimeoutSeconds,
     extra |-> req.extra, resource |-> req.resource,
     description |-> req.description, mimeType |-> req.mimeType]

\* Mutant: an entry without amount is let through.
V2RequirementThrows_Lenient(req) == FALSE

V2RequirementThrows(req) == ~Truthy(req.amount)
NormalizeV2Requirement(req) ==
    [scheme |-> req.scheme, network |-> req.network,
     amount |-> req.amount, asset |-> req.asset,
     payTo |-> req.payTo, maxTimeoutSeconds |-> req.maxTimeoutSeconds,
     extra |-> req.extra, resource |-> Absent,
     description |-> Absent, mimeType |-> Absent]

\* Mutant: the legacy branch passes the top-level fields through as well.
NormalizePaymentRequired_PassThrough(pr) ==
    LET version == IF IsSome(pr.x402Version) THEN Get(pr.x402Version) ELSE 1
    IN  IF ~IsSome(pr.accepts) THEN None
        ELSE LET acc == Get(pr.accepts) IN
          IF IsV1Response(pr)
          THEN IF \E i \in 1..Len(acc) : V1RequirementThrows(acc[i]) THEN None
               ELSE Some([x402Version |-> 1, error |-> pr.error,
                          accepts |-> [i \in 1..Len(acc) |-> NormalizeV1Requirement(acc[i])],
                          resource |-> pr.resource,
                          extensions |-> pr.extensions])
          ELSE IF \E i \in 1..Len(acc) : V2RequirementThrows(acc[i]) THEN None
               ELSE Some([x402Version |-> version, error |-> pr.error,
                          accepts |-> [i \in 1..Len(acc) |-> NormalizeV2Requirement(acc[i])],
                          resource |-> pr.resource,
                          extensions |-> pr.extensions])

\* normalizePaymentRequired: <<>> when it throws, else <<normalized>>.
NormalizePaymentRequired(pr) ==
    LET version == IF IsSome(pr.x402Version) THEN Get(pr.x402Version) ELSE 1
    IN  IF ~IsSome(pr.accepts) THEN None
        ELSE LET acc == Get(pr.accepts) IN
          IF IsV1Response(pr)
          THEN IF \E i \in 1..Len(acc) : V1RequirementThrows(acc[i]) THEN None
               ELSE Some([x402Version |-> 1, error |-> pr.error,
                          accepts |-> [i \in 1..Len(acc) |-> NormalizeV1Requirement(acc[i])],
                          resource |-> None,
                          extensions |-> None])
          ELSE IF \E i \in 1..Len(acc) : V2RequirementThrows(acc[i]) THEN None
               ELSE Some([x402Version |-> version, error |-> pr.error,
                          accepts |-> [i \in 1..Len(acc) |-> NormalizeV2Requirement(acc[i])],
                          resource |-> pr.resource,
                          extensions |-> pr.extensions])

\* ------------------------------------------------------------ wire values
\* A raw PaymentRequired as the library hands it to the engines.
Wire(ver, acc, ext) ==
    [x402Version |-> ver, error |-> Absent, accepts |-> acc,
     resource |-> IF ver = Some(2)
                  THEN Some([url |-> "https://r", description |-> "d",
                             mimeType |-> "application/json"])
                  ELSE None,
     extensions |-> ext]

WireV1 == Wire(Some(1), Some(<<V1Entry>>), None)
WireV2 == Wire(Some(2), Some(<<V2Entry, V2EntryB>>), None)
WireV2Auth == Wire(Some(2), Some(<<V2Entry>>),
                   Some([keys |-> {"sign-in-with-x", "bazaar"},
                         info |-> Some(GoodInfo("eip155:8453"))]))
WireBadEntry == Wire(Some(2), Some(<<V2Entry, BadEntry>>), None)
WireNoAccepts == Wire(Some(2), None, None)
WireNoVersion == Wire(None, Some(<<V2Entry>>), None)
WireEmpty == Wire(Some(2), Some(<<>>), None)

\* What a 402 can carry when it reaches makeRequest ...
PaymentWires ==
    {WireV1, WireV2, WireV2Auth, WireBadEntry, WireNoAccepts, WireNoVersion,
     WireEmpty}
\* ... and when it reaches authed_call.
AuthWires ==
    {WireV1, WireV2, WireBadEntry, WireNoAccepts}
    \cup {Wire(Some(2), Some(<<V2Entry>>), Some(e)) : e \in ExtensionMaps}

\* ---------------------------------------------------------------- responses
Statuses == {200, 402, 404, 500}
\* Response.ok
ResponseOk(status) == status >= 200 /\ status <= 299
\* status !== 402 decides whether the flow goes on
IsPaymentRequired(status) == status = 402

\* bodyKind: "json" a body that parses as JSON, "text" one that does not,
\* "broken" a body whose stream fails while it is read.
\* wire: what getPaymentRequiredResponse finds in headers and body (None: it
\* throws).  settle: what getPaymentSettleResponse finds (None: it throws).
Response(st, kind, ctype, wire, settle) ==
    [status |-> st, bodyKind |-> kind, body |-> "payload",
     contentType |-> ctype, wire |-> wire, settle |-> settle]

ContentTypes == {"application/json", "text/html"}

Settles ==
    {None,
     Some([transaction |-> "0xTX", network |-> "eip155:8453", payer |-> "0xPAYER"]),
     Some([transaction |-> "0xTX", network |-> "eip155:8453", payer |-> ""])}

\* Responses to the first request.  A version 1 wire travels in the body, so
\* the body of such a 402 parses.
FirstResponses(wires, ctypes) ==
    {Response(st, k, c, None, None) :
        st \in Statuses \ {402}, k \in {"json", "text", "broken"}, c \in ctypes}
    \cup {r \in {Response(402, k, "application/json", w, None) :
                    k \in {"json", "text"}, w \in {None} \cup {Some(x) : x \in wires}} :
            (IsSome(r.wire) /\ Get(r.wire).x402Version = Some(1)) => r.bodyKind = "json"}

\* Responses to the retry.  Only a success carries a settlement header.
RetryResponses(ctypes) ==
    {r \in {Response(st, k, c, None, s) :
                st \in Statuses, k \in {"json", "text", "broken"}, c \in ctypes,
                s \in Settles} :
        IsSome(r.settle) => ResponseOk(r.status)}

\* Object.fromEntries(response.headers.entries())
RawHeaders(resp) == [contentType |-> resp.contentType, settle |-> resp.settle]

\* A Response body is a stream that can be read once: json() and text() both
\* consume it, and either rejects with a TypeError once it has been read
\* (`used`).  clone() gives a second, unread body.
\* response.json(): None when it rejects (body already read, stream failure,
\* or not JSON), else the parsed value.
ReadJson(resp, used) ==
    IF used \/ resp.bodyKind # "json" THEN None
    ELSE Some([parsed |-> TRUE, value |-> resp.body])

\* response.text(): None when it rejects (body already read or stream
\* failure), else the raw text.
ReadText(resp, used) ==
    IF used \/ resp.bodyKind = "broken" THEN None
    ELSE Some([parsed |-> FALSE, value |-> resp.body])

\* ------------------------------------------------------------------ headers
HeaderNames == {"X-Custom", "PAYMENT-SIGNATURE", "X-PAYMENT", "SIGN-IN-WITH-X"}

CallerValue == [from |-> "caller", carries |-> None]
DefaultHeaders == [n \in {"Content-Type"} |-> [from |-> "default", carries |-> None]]

\* The headers objects a caller can pass.
CallerHeaders ==
    UNION {[S -> {CallerValue}] :
             S \in {T \in SUBSET HeaderNames : Cardinality(T) <= MaxCallerHeaders}}

\* { ...a, ...b }: on a shared key the later spread wins.
Spread(a, b) ==
    [k \in DOMAIN a \cup DOMAIN b |-> IF k \in DOMAIN b THEN b[k] ELSE a[k]]

\* The arguments of one call.  body ? JSON.stringify(body) : undefined
Url == "https://api.example.com/r"
CallArgs ==
    {a \in [url : {Url}, method : {"GET", "POST"}, body : {None, Some("b")},
            headers : CallerHeaders] :
        IsSome(a.body) => a.method = "POST"}

SerializedBody(body) == IF IsSome(body) THEN Some([json |-> Get(body)]) ELSE None

\* The init object handed to fetch.
FetchRequest(a, hdrs) ==
    [url |-> a.url, method |-> a.method, headers |-> hdrs,
     body |-> SerializedBody(a.body)]

\* -------------------------------------------------------------------- state
VARIABLES
    pc,                 \* position of the call in flight ("idle": none)
    engine,             \* "makeRequest", "authed_call" or "queryEndpoint" ("none": idle)
    args,               \* arguments of the call in flight
    requests,           \* the fetch calls issued by this call, in order
    firstResponse,      \* Some(response to the first request)
    retryResponse,      \* Some(response to the retry)
    responseBody,       \* body of the 402 as parsed by clone().json()
    rawPaymentRequired, \* Some(raw wire value) once read
    paymentRequired,    \* Some(normalized value) once normalized
    paymentPayload,     \* Some(signed payment / signed SIWX bundle)
    authHeaders,        \* headers object holding the encoded instrument
    phases,             \* phases entered by this call, in order
    signerCalls,        \* invocations of the signing capability in this call
    outcome,            \* "pending", "returned" or "thrown"
    result,             \* Some(value returned) when outcome = "returned"
    queryClient,        \* Some(client held by the queryEndpoint call in flight)
    parseClient,        \* module-level cache of client.ts: Some(instance) once built
    clientsBuilt,       \* parse-only clients constructed so far
    calls,              \* SpecConc: the state of each concurrent call
    handedOut,          \* SpecConc: the instances getParseClient has returned
    fnInput,            \* pure specifications: the argument drawn
    fnOutput,           \* pure specifications: what the function returned
    fnApplied,          \* pure specifications: the function applied ("none": not yet)
    toolResponse,       \* Some(what execute_call answered for the call in flight)
    walletFile,         \* SpecKeys: wallet.json
    envPrivateKey,      \* SpecKeys: process.env.X402_PRIVATE_KEY
    cachedWalletAddress, \* SpecKeys: module-level cache of keystore.ts
    walletCalls,        \* SpecKeys: the state of each getWallet call
    keysGenerated       \* SpecKeys: private keys drawn from randomBytes so far

\* The module-level state of client.ts.
cacheVars == <<parseClient, clientsBuilt>>
\* The variables of the other specifications.
\* The state of keystore.ts: the wallet file, the address cache, the calls.
keyVars == <<walletFile, envPrivateKey, cachedWalletAddress, walletCalls,
             keysGenerated>>
sideVars == <<calls, handedOut, fnInput, fnOutput, fnApplied, toolResponse, keyVars>>
\* The variables of the call in flight.
callVars == <<pc, engine, args, requests, firstResponse, retryResponse,
              responseBody, rawPaymentRequired, paymentRequired, paymentPayload,
              authHeaders, phases, signerCalls, outcome, result, queryClient>>

vars == <<callVars, cacheVars, sideVars>>

NoArgs == [url |-> Url, method |-> "GET", body |-> None,
           headers |-> [n \in {} |-> CallerValue]]
NoHeaders == [n \in {} |-> CallerValue]

\* Number of concurrent calls of SpecConc.
NumCalls == 2
Procs == 1..NumCalls

\* A call slot of SpecConc with no call in it.
IdleCall ==
    [kind |-> "none", pc |-> "idle", args |-> NoArgs, client |-> None,
     first |-> None, pr |-> None, payload |-> None, requests |-> <<>>,
     heard |-> <<>>, outcome |-> "pending", result |-> None]

\* No call in flight.
CallIdle ==
    /\ pc = "idle"
    /\ engine = "none"
    /\ args = NoArgs
    /\ requests = <<>>
    /\ firstResponse = None
    /\ retryResponse = None
    /\ responseBody = None
    /\ rawPaymentRequired = None
    /\ paymentRequired = None
    /\ paymentPayload = None
    /\ authHeaders = NoHeaders
    /\ phases = <<>>
    /\ signerCalls = 0
    /\ outcome = "pending"
    /\ result = None
    /\ queryClient = None
    /\ toolResponse = None

\* Module load: `let parseClient = null`.
CacheEmpty ==
    /\ parseClient = None
    /\ clientsBuilt = 0

ConcIdle ==
    /\ calls = [p \in Procs |-> IdleCall]
    /\ handedOut = {}

PureIdle ==
    /\ fnInput = None
    /\ fnOutput = None
    /\ fnApplied = "none"

\* wallet.json: missing, or holding a private key that can or cannot be
\* loaded (unreadable file, invalid JSON, invalid key).
NoFile == [exists |-> FALSE, readable |-> FALSE, key |-> 0]
StoredWallet(privateKey) == [exists |-> TRUE, readable |-> TRUE, key |-> privateKey]

\* A slot of SpecKeys with no call in it.
IdleWalletCall ==
    [pc |-> "idle", caller |-> "none", found |-> "none", key |-> 0,
     address |-> None, isNew |-> FALSE, fromCache |-> FALSE]

\* Module load of keystore.ts (`let cachedWalletAddress = null`), no calls.
KeysIdle ==
    /\ cachedWalletAddress = None
    /\ walletCalls = [p \in Procs |-> IdleWalletCall]
    /\ keysGenerated = 0

Init ==
    /\ CallIdle /\ CacheEmpty /\ ConcIdle /\ PureIdle /\ KeysIdle
    /\ walletFile = NoFile /\ envPrivateKey = None

\* The call returns v.
Return(v) ==
    /\ pc' = "done"
    /\ outcome' = "returned"
    /\ result' = Some(v)

\* An exception leaves the call: the promise rejects.
Throw ==
    /\ pc' = "done"
    /\ outcome' = "thrown"
    /\ result' = None

Continue(next) ==
    /\ pc' = next
    /\ UNCHANGED <<outcome, result>>

\* -------------------------------------------------- client.ts: makeRequest
\* The result object of makeRequest; absent keys are None.
RequestResult(ok, status, data, settlement, pr, err) ==
    [success |-> ok, statusCode |-> status, data |-> data,
     settlement |-> settlement, paymentRequired |-> pr, error |-> err]

\* A message template with the values interpolated into it.
Msg(text, body) == [text |-> text, body |-> body]

ErrorOf(phase, message, details) ==
    Some([phase |-> phase, message |-> message, details |-> details])

\* Mutant: the catch of the paid fetch reuses the tag of the first one.
NetworkFailure_FirstTag(phase, pr) ==
    RequestResult(FALSE, 0, None, None, pr,
        ErrorOf("initial_request", Msg("Network error: ", None), None))

\* catch of the initial fetch / of the paid fetch: a transport failure.
NetworkFailure(phase, pr) ==
    RequestResult(FALSE, 0, None, None, pr,
        ErrorOf(phase,
                Msg(IF phase = "initial_request" THEN "Network error: "
                    ELSE "Network error on paid request: ", None),
                None))

\* A 2xx first response: the data as-is.
PassThroughSuccess(status, data) ==
    RequestResult(TRUE, status, data, None, None, None)

\* Mutant: any status but 402 is passed through as a success, as the probe does.
InitialHttpFailure_AsSuccess(status, text) ==
    RequestResult(TRUE, status, Some([parsed |-> FALSE, value |-> text]),
                  None, None, None)

\* Mutant: the message names the status only and drops the body.
InitialHttpFailure_NoBody(status, text) ==
    RequestResult(FALSE, status, None, None, None,
        ErrorOf("initial_request", Msg("HTTP <status>: ", None), None))

\* A first response that is neither 2xx nor 402.
InitialHttpFailure(status, text) ==
    RequestResult(FALSE, status, None, None, None,
        ErrorOf("initial_request", Msg("HTTP <status>: ", Some(text)), None))

\* Mutant: the diagnostics are left out of the failure.
ParseFailure_NoDetails(headers, body) ==
    RequestResult(FALSE, 402, None, None, None,
        ErrorOf("parse_requirements",
                Msg("Failed to parse payment requirements: ", None), None))

\* catch of phase 2.
ParseFailure(headers, body) ==
    RequestResult(FALSE, 402, None, None, None,
        ErrorOf("parse_requirements",
                Msg("Failed to parse payment requirements: ", None),
                Some([headers |-> headers, body |-> body])))

\* Mutant: the normalized requirements are not attached.
SignatureFailure_NoRequirements(pr) ==
    RequestResult(FALSE, 402, None, None, None,
        ErrorOf("create_signature", Msg("Failed to create payment: ", None), None))

\* catch of phase 3.
SignatureFailure(pr) ==
    RequestResult(FALSE, 402, None, None, pr,
        ErrorOf("create_signature", Msg("Failed to create payment: ", None), None))

\* Mutant: the failure after payment forgets the requirements.
PaidHttpFailure_NoRequirements(status, text, headers, pr) ==
    RequestResult(FALSE, status, None, None, None,
        ErrorOf("paid_request", Msg("HTTP <status> after payment: ", Some(text)),
                Some([headers |-> headers, body |-> None])))

\* A paid response that is not 2xx.
PaidHttpFailure(status, text, headers, pr) ==
    RequestResult(FALSE, status, None, None, pr,
        ErrorOf("paid_request", Msg("HTTP <status> after payment: ", Some(text)),
                Some([headers |-> headers, body |-> None])))

\* Mutant: a confirmation that cannot be read fails the call in its own phase.
PaidSuccess_SettlementFatal(status, data, settlement, pr) ==
    IF IsSome(settlement)
    THEN RequestResult(TRUE, status, data, settlement, pr, None)
    ELSE RequestResult(FALSE, status, None, None, pr,
             ErrorOf("settlement", Msg("Could not parse settlement: ", None), None))

\* The paid call succeeded.
PaidSuccess(status, data, settlement, pr) ==
    RequestResult(TRUE, status, data, settlement, pr, None)

StartMakeRequest ==
    /\ pc = "idle"
    /\ UNCHANGED <<queryClient, cacheVars, sideVars>>
    /\ \E a \in CallArgs : args' = a
    /\ engine' = "makeRequest"
    /\ pc' = "mr_initial"
    /\ UNCHANGED <<requests, firstResponse, retryResponse, responseBody,
                   rawPaymentRequired, paymentRequired, paymentPayload,
                   authHeaders, phases, signerCalls, outcome, result>>

\* Mutant: every error status is taken for a payment demand.
AfterFirstResponse_AnyError(status) ==
    IF ~ResponseOk(status) THEN "mr_parse" ELSE "mr_passthrough"

\* Where the flow goes once the first response is in.
AfterFirstResponse(status) ==
    IF IsPaymentRequired(status) THEN "mr_parse" ELSE "mr_passthrough"

\* Phase 1: the caller's request, unmodified.
MR_InitialRequest ==
    /\ pc = "mr_initial"
    /\ UNCHANGED <<queryClient, cacheVars, sideVars>>
    /\ phases' = Append(phases, "initial_request")
    /\ requests' = Append(requests, FetchRequest(args, Spread(DefaultHeaders, args.headers)))
    /\ \/ /\ Return(NetworkFailure("initial_request", None))
          /\ UNCHANGED firstResponse
       \/ \E r \in FirstResponses(PaymentWires, {"application/json"}) :
            /\ firstResponse' = Some(r)
            /\ Continue(AfterFirstResponse(r.status))
    /\ UNCHANGED <<engine, args, retryResponse, responseBody, rawPaymentRequired,
                   paymentRequired, paymentPayload, authHeaders, signerCalls>>

\* Not 402: return as-is.
MR_PassThrough ==
    /\ pc = "mr_passthrough"
    /\ UNCHANGED <<queryClient, cacheVars, sideVars>>
    /\ LET r == Get(firstResponse)
           j == ReadJson(r, FALSE)
           t == ReadText(r, FALSE)
           \* text() after json() has read the body
           t2 == ReadText(r, TRUE)
       IN  IF ResponseOk(r.status)
           THEN IF IsSome(j)
                THEN Return(PassThroughSuccess(r.status, j))
                ELSE IF IsSome(t2)
                     THEN Return(PassThroughSuccess(r.status, t2))
                     ELSE Throw
           ELSE IF IsSome(t)
                THEN Return(InitialHttpFailure(r.status, Get(t).value))
                ELSE Throw
    /\ UNCHANGED <<engine, args, requests, firstResponse, retryResponse,
                   responseBody, rawPaymentRequired, paymentRequired,
                   paymentPayload, authHeaders, phases, signerCalls>>

\* client.getPaymentRequiredResponse(headers, body): external library; None
\* when it throws.
GetPaymentRequiredResponse(resp) == resp.wire

\* Phase 2: read the 402 into the raw wire shape and normalize it.
MR_ParseRequirements ==
    /\ pc = "mr_parse"
    /\ UNCHANGED <<queryClient, cacheVars, sideVars>>
    /\ phases' = Append(phases, "parse_requirements")
    /\ LET r == Get(firstResponse)
           body == ReadJson(r, FALSE)       \* of the clone
           raw == GetPaymentRequiredResponse(r)
           norm == IF IsSome(raw) THEN NormalizePaymentRequired(Get(raw)) ELSE None
       IN  /\ responseBody' = body
           /\ IF IsSome(norm)
              THEN /\ rawPaymentRequired' = raw
                   /\ paymentRequired' = norm
                   /\ Continue("mr_sign")
              ELSE /\ Return(ParseFailure(RawHeaders(r), body))
                   /\ UNCHANGED <<rawPaymentRequired, paymentRequired>>
    /\ UNCHANGED <<engine, args, requests, firstResponse, retryResponse,
                   paymentPayload, authHeaders, signerCalls>>

\* client.createPaymentPayload(raw): the payloads the library can build from
\* the raw requirements.  It picks one of the entries and signs for it; a
\* version 1 payload has no accepted member.
PaymentPayloads(raw) ==
    {[x402Version |-> raw.x402Version, accepted |-> acc, signature |-> "sig"] :
        acc \in {None} \cup {Some(Get(raw.accepts)[i]) : i \in 1..Len(Get(raw.accepts))}}

\* Phase 3: create the signed payment from the raw requirements.
MR_CreateSignature ==
    /\ pc = "mr_sign"
    /\ UNCHANGED <<queryClient, cacheVars, sideVars>>
    /\ phases' = Append(phases, "create_signature")
    /\ signerCalls' = signerCalls + 1
    /\ \/ /\ Return(SignatureFailure(paymentRequired))
          /\ UNCHANGED paymentPayload
       \/ /\ Len(Get(Get(rawPaymentRequired).accepts)) > 0
          /\ \E p \in PaymentPayloads(Get(rawPaymentRequired)) :
                paymentPayload' = Some(p)
          /\ Continue("mr_encode")
    /\ UNCHANGED <<engine, args, requests, firstResponse, retryResponse,
                   responseBody, rawPaymentRequired, paymentRequired, authHeaders>>

\* client.encodePaymentSignatureHeader(payload): the header the protocol
\* version names, holding the encoded payload; None when it throws
\* (unsupported version).
EncodePaymentSignatureHeader(payload) ==
    LET value == [from |-> "instrument", carries |-> Some(payload)]
    IN  IF payload.x402Version = Some(2)
        THEN Some([n \in {"PAYMENT-SIGNATURE"} |-> value])
        ELSE IF payload.x402Version = Some(1)
             THEN Some([n \in {"X-PAYMENT"} |-> value])
             ELSE None

MR_EncodeHeader ==
    /\ pc = "mr_encode"
    /\ UNCHANGED <<queryClient, cacheVars, sideVars>>
    /\ LET h == EncodePaymentSignatureHeader(Get(paymentPayload))
       IN  IF IsSome(h)
           THEN authHeaders' = Get(h) /\ Continue("mr_paid")
           ELSE Throw /\ UNCHANGED authHeaders
    /\ UNCHANGED <<engine, args, requests, firstResponse, retryResponse,
                   responseBody, rawPaymentRequired, paymentRequired,
                   paymentPayload, phases, signerCalls>>

\* The headers of the paid request.
\* Mutant: the paid request is sent without the caller's headers.
PaidRequestHeaders_NoCaller(payment, caller) ==
    Spread(DefaultHeaders, payment)
PaidRequestHeaders(payment, caller) ==
    Spread(Spread(DefaultHeaders, payment), caller)

\* Mutant: a 402 answer to the paid request is paid again.
AfterPaidResponse_PayAgain(status) ==
    IF ResponseOk(status) THEN "mr_settle"
    ELSE IF status = 402 THEN "mr_paid" ELSE "mr_paidfail"

\* Mutant: the settlement is read whatever the status of the paid response.
AfterPaidResponse_AlwaysSettle(status) == "mr_settle"

\* Where the flow goes once the paid response is in.
AfterPaidResponse(status) ==
    IF ResponseOk(status) THEN "mr_settle" ELSE "mr_paidfail"

\* Phase 4: retry with payment.
MR_PaidRequest ==
    /\ pc = "mr_paid"
    /\ UNCHANGED <<queryClient, cacheVars, sideVars>>
    /\ phases' = Append(phases, "paid_request")
    /\ requests' = Append(requests,
                          FetchRequest(args, PaidRequestHeaders(authHeaders, args.headers)))
    /\ \/ /\ Return(NetworkFailure("paid_request", paymentRequired))
          /\ UNCHANGED retryResponse
       \/ \E r \in RetryResponses({"application/json"}) :
            /\ retryResponse' = Some(r)
            /\ Continue(AfterPaidResponse(r.status))
    /\ UNCHANGED <<engine, args, firstResponse, responseBody, rawPaymentRequired,
                   paymentRequired, paymentPayload, authHeaders, signerCalls>>

\* The paid response is not a success.
MR_PaidFailure ==
    /\ pc = "mr_paidfail"
    /\ UNCHANGED <<queryClient, cacheVars, sideVars>>
    /\ LET r == Get(retryResponse)
           t == ReadText(r, FALSE)
       IN  IF IsSome(t)
           THEN Return(PaidHttpFailure(r.status, Get(t).value, RawHeaders(r),
                                       paymentRequired))
           ELSE Throw
    /\ UNCHANGED <<engine, args, requests, firstResponse, retryResponse,
                   responseBody, rawPaymentRequired, paymentRequired,
                   paymentPayload, authHeaders, phases, signerCalls>>

\* settle.payer || paymentPayload.accepted?.payTo || ""
\* Mutant: the payer is the confirmation's payer field, blank or not.
SettlementPayer_ConfirmationOnly(settle, payload) == settle.payer
SettlementPayer(settle, payload) ==
    IF Truthy(settle.payer) THEN settle.payer
    ELSE IF IsSome(payload.accepted) /\ Truthy(Get(payload.accepted).payTo)
         THEN Get(payload.accepted).payTo
         ELSE ""

\* client.getPaymentSettleResponse(headers): None when it throws.
GetPaymentSettleResponse(resp) == resp.settle

\* The settlement of the result: undefined when the confirmation is absent
\* or malformed.
SettlementOf(resp, payload) ==
    LET settle == GetPaymentSettleResponse(resp)
    IN  IF IsSome(settle)
        THEN Some([transactionHash |-> Get(settle).transaction,
                   network |-> Get(settle).network,
                   payer |-> SettlementPayer(Get(settle), payload)])
        ELSE None

\* Phase 5: parse the settlement, then the response data.
MR_Settlement ==
    /\ pc = "mr_settle"
    /\ UNCHANGED <<queryClient, cacheVars, sideVars>>
    /\ phases' = Append(phases, "settlement")
    /\ LET r == Get(retryResponse)
           settlement == SettlementOf(r, Get(paymentPayload))
           j == ReadJson(r, FALSE)
           t2 == ReadText(r, TRUE)
       IN  IF IsSome(j)
           THEN Return(PaidSuccess(r.status, j, settlement, paymentRequired))
           ELSE IF IsSome(t2)
                THEN Return(PaidSuccess(r.status, t2, settlement, paymentRequired))
                ELSE Throw
    /\ UNCHANGED <<engine, args, requests, firstResponse, retryResponse,
                   responseBody, rawPaymentRequired, paymentRequired,
                   paymentPayload, authHeaders, signerCalls>>

\* ------------------------------------------- authed_call: handleAuthedCall
\* mcpSuccess(data) / mcpError(message, context)
McpSuccess(data) == [isError |-> FALSE, error |-> None, payload |-> data]
McpError(message, context) ==
    [isError |-> TRUE, error |-> Some(message), payload |-> context]

\* The wallet handed to the engine in deps.
SignerAddress == "0xSIGNER"

\* String.prototype.startsWith
StartsWith(str, prefix) ==
    Len(str) >= Len(prefix) /\ SubSeq(str, 1, Len(prefix)) = prefix

StartAuthedCall ==
    /\ pc = "idle"
    /\ UNCHANGED <<queryClient, cacheVars, sideVars>>
    /\ \E a \in CallArgs : args' = a
    /\ engine' = "authed_call"
    /\ pc' = "ac_initial"
    /\ UNCHANGED <<requests, firstResponse, retryResponse, responseBody,
                   rawPaymentRequired, paymentRequired, paymentPayload,
                   authHeaders, phases, signerCalls, outcome, result>>

\* Step 1: the initial request.  The fetch is not guarded.
AC_InitialRequest ==
    /\ pc = "ac_initial"
    /\ UNCHANGED <<queryClient, cacheVars, sideVars>>
    /\ phases' = Append(phases, "initial_request")
    /\ requests' = Append(requests, FetchRequest(args, Spread(DefaultHeaders, args.headers)))
    /\ \/ Throw /\ UNCHANGED firstResponse
       \/ \E r \in FirstResponses(AuthWires, ContentTypes) :
            /\ firstResponse' = Some(r)
            /\ Continue(IF IsPaymentRequired(r.status) THEN "ac_parse" ELSE "ac_passthrough")
    /\ UNCHANGED <<engine, args, retryResponse, responseBody, rawPaymentRequired,
                   paymentRequired, paymentPayload, authHeaders, signerCalls>>

\* The data of a successful response: json() when the content type says so,
\* else text().  None when the read rejects.
ReadByContentType(resp) ==
    IF resp.contentType = "application/json"
    THEN ReadJson(resp, FALSE)
    ELSE ReadText(resp, FALSE)

\* The body of an error response: try json(), catch: text() of the body
\* json() has already read.
ReadErrorBody(resp) ==
    IF IsSome(ReadJson(resp, FALSE)) THEN ReadJson(resp, FALSE)
    ELSE ReadText(resp, TRUE)

\* Not 402: the response is returned directly.
AC_PassThrough ==
    /\ pc = "ac_passthrough"
    /\ UNCHANGED <<queryClient, cacheVars, sideVars>>
    /\ LET r == Get(firstResponse)
           data == IF ResponseOk(r.status) THEN ReadByContentType(r)
                   ELSE ReadErrorBody(r)
       IN  IF ~IsSome(data) THEN Throw
           ELSE IF ResponseOk(r.status)
                THEN Return(McpSuccess([statusCode |-> r.status,
                                        headers |-> RawHeaders(r), data |-> data]))
                ELSE Return(McpError("HTTP <status>",
                                     [statusCode |-> r.status,
                                      headers |-> RawHeaders(r), body |-> data]))
    /\ UNCHANGED <<engine, args, requests, firstResponse, retryResponse,
                   responseBody, rawPaymentRequired, paymentRequired,
                   paymentPayload, authHeaders, phases, signerCalls>>

\* Step 2: parse the 402 and normalize it.  Neither call is guarded.
AC_ParseRequirements ==
    /\ pc = "ac_parse"
    /\ UNCHANGED <<queryClient, cacheVars, sideVars>>
    /\ phases' = Append(phases, "parse_requirements")
    /\ LET r == Get(firstResponse)
           raw == GetPaymentRequiredResponse(r)
           norm == IF IsSome(raw) THEN NormalizePaymentRequired(Get(raw)) ELSE None
       IN  /\ responseBody' = ReadJson(r, FALSE)
           /\ IF IsSome(norm)
              THEN /\ rawPaymentRequired' = raw
                   /\ paymentRequired' = norm
                   /\ Continue("ac_challenge")
              ELSE /\ Throw
                   /\ UNCHANGED <<rawPaymentRequired, paymentRequired>>
    /\ UNCHANGED <<engine, args, requests, firstResponse, retryResponse,
                   paymentPayload, authHeaders, signerCalls>>

\* paymentRequired.extensions?.['sign-in-with-x']?.info
SiwxInfo(pr) ==
    IF IsSome(pr.extensions) /\ "sign-in-with-x" \in Get(pr.extensions).keys
    THEN Get(pr.extensions).info
    ELSE None

\* Mutant: the error reports no extension keys at all.
ExtensionKeys_Empty(pr) == {}

\* Object.keys(paymentRequired.extensions || {})
ExtensionKeys(pr) ==
    IF IsSome(pr.extensions) THEN Get(pr.extensions).keys ELSE {}

\* Mutant: the validation stops at the first missing field.
MissingFields_First(info) ==
    LET all == SelectSeq(RequiredFields, LAMBDA f : ~Truthy(info[f]))
    IN  IF Len(all) = 0 THEN all ELSE <<all[1]>>

\* requiredFields.filter((f) => !serverInfo[f])
MissingFields(info) ==
    SelectSeq(RequiredFields, LAMBDA f : ~Truthy(info[f]))

\* Mutant: no chain is refused.
IsUnsupportedChain_None(chainId) == FALSE

\* serverInfo.chainId.startsWith('solana:')
IsUnsupportedChain(chainId) == StartsWith(chainId, "solana:")

\* Steps 3 and 4: find the challenge, validate it, reject unsupported chains.
AC_CheckChallenge ==
    /\ pc = "ac_challenge"
    /\ UNCHANGED <<queryClient, cacheVars, sideVars>>
    /\ LET pr == Get(paymentRequired)
           info == SiwxInfo(pr)
       IN  IF ~IsSome(info)
           THEN Return(McpError("Endpoint returned 402 but no sign-in-with-x extension found",
                    [statusCode |-> 402, x402Version |-> pr.x402Version,
                     extensions |-> ExtensionKeys(pr)]))
           ELSE IF Len(MissingFields(Get(info))) > 0
           THEN Return(McpError("Invalid sign-in-with-x extension: missing required fields",
                    [missingFields |-> MissingFields(Get(info)),
                     receivedInfo |-> Get(info)]))
           ELSE IF IsUnsupportedChain(Get(info).chainId)
           THEN Return(McpError("Solana authentication not supported",
                    [chainId |-> Get(info).chainId]))
           ELSE Continue("ac_sign")
    /\ UNCHANGED <<engine, args, requests, firstResponse, retryResponse,
                   responseBody, rawPaymentRequired, paymentRequired,
                   paymentPayload, authHeaders, phases, signerCalls>>

\* createSIWxPayload(serverInfo, account): the challenge fields, the signer's
\* address and a signature over both.
CreateSIWxPayload(info, address) ==
    [domain |-> info.domain, uri |-> info.uri, version |-> info.version,
     chainId |-> info.chainId, nonce |-> info.nonce, issuedAt |-> info.issuedAt,
     address |-> address,
     signature |-> [signer |-> address, over |-> info]]

\* encodeSIWxHeader(payload): the bundle as one encoded string.
EncodeSIWxHeader(payload) == [from |-> "instrument", carries |-> Some(payload)]

\* Step 5: sign the server's challenge.  Neither call is guarded.
AC_CreateProof ==
    /\ pc = "ac_sign"
    /\ UNCHANGED <<queryClient, cacheVars, sideVars>>
    /\ phases' = Append(phases, "create_signature")
    /\ signerCalls' = signerCalls + 1
    /\ \/ Throw /\ UNCHANGED <<paymentPayload, authHeaders>>
       \/ LET payload == CreateSIWxPayload(Get(SiwxInfo(Get(paymentRequired))), SignerAddress)
          IN  /\ paymentPayload' = Some(payload)
              /\ authHeaders' = [n \in {"SIGN-IN-WITH-X"} |-> EncodeSIWxHeader(payload)]
              /\ Continue("ac_retry")
    /\ UNCHANGED <<engine, args, requests, firstResponse, retryResponse,
                   responseBody, rawPaymentRequired, paymentRequired>>

\* The headers of the authenticated retry.
AuthedRequestHeaders(auth, caller) ==
    Spread(Spread(DefaultHeaders, auth), caller)

\* Step 6: retry with the SIGN-IN-WITH-X header.  The fetch is not guarded.
AC_AuthedRequest ==
    /\ pc = "ac_retry"
    /\ UNCHANGED <<queryClient, cacheVars, sideVars>>
    /\ phases' = Append(phases, "paid_request")
    /\ requests' = Append(requests,
                          FetchRequest(args, AuthedRequestHeaders(authHeaders, args.headers)))
    /\ \/ Throw /\ UNCHANGED retryResponse
       \/ \E r \in {x \in RetryResponses(ContentTypes) : ~IsSome(x.settle)} :
            /\ retryResponse' = Some(r)
            /\ Continue("ac_response")
    /\ UNCHANGED <<engine, args, firstResponse, responseBody, rawPaymentRequired,
                   paymentRequired, paymentPayload, authHeaders, signerCalls>>

\* The authenticated response is surfaced; a failure is terminal.
AC_AuthedResponse ==
    /\ pc = "ac_response"
    /\ UNCHANGED <<queryClient, cacheVars, sideVars>>
    /\ LET r == Get(retryResponse)
           info == Get(SiwxInfo(Get(paymentRequired)))
           data == IF ResponseOk(r.status) THEN ReadByContentType(r)
                   ELSE ReadErrorBody(r)
       IN  IF ~IsSome(data) THEN Throw
           ELSE IF ~ResponseOk(r.status)
                THEN Return(McpError("HTTP <status> after authentication",
                                     [statusCode |-> r.status,
                                      headers |-> RawHeaders(r), body |-> data,
                                      authAddress |-> SignerAddress]))
                ELSE Return(McpSuccess([statusCode |-> r.status,
                                        headers |-> RawHeaders(r), data |-> data,
                                        authentication |->
                                          [address |-> SignerAddress,
                                           domain |-> info.domain,
                                           chainId |-> info.chainId]]))
    /\ UNCHANGED <<engine, args, requests, firstResponse, retryResponse,
                   responseBody, rawPaymentRequired, paymentRequired,
                   paymentPayload, authHeaders, phases, signerCalls>>

\* ------------------------------------------------ client.ts: queryEndpoint
\* Mutant: getParseClient without the `if (!parseClient)` test.
GetParseClient_AlwaysBuild(cache, built) ==
    [parseClient |-> Some(built + 1), built |-> built + 1, instance |-> built + 1]

\* getParseClient(): builds the parse-only client on the first call, caches
\* it and returns the cached instance.  An instance is named by its
\* construction number.
GetParseClient(cache, built) ==
    IF ~IsSome(cache)
    THEN [parseClient |-> Some(built + 1), built |-> built + 1, instance |-> built + 1]
    ELSE [parseClient |-> cache, built |-> built, instance |-> Get(cache)]

\* The result object of queryEndpoint; absent keys are None.
QueryResult(ok, status, pr, headers, body, err) ==
    [success |-> ok, statusCode |-> status,
     x402Version |-> IF IsSome(pr) THEN Some(Get(pr).x402Version) ELSE None,
     paymentRequired |-> pr, rawHeaders |-> headers, rawBody |-> body,
     error |-> err, parseErrors |-> IF IsSome(err) /\ status = 402 THEN err ELSE None]

\* Mutant: an error status of the probed endpoint is reported as a failure.
QueryOutcome_ErrorsFail(resp) ==
    IF ~IsSome(resp)
    THEN QueryResult(FALSE, 0, None, None, None, Some(Msg("Network error: ", None)))
    ELSE LET r == Get(resp)
             rawBody == ReadJson(r, FALSE)
             raw == GetPaymentRequiredResponse(r)
             norm == IF IsSome(raw) THEN NormalizePaymentRequired(Get(raw)) ELSE None
         IN  IF r.status # 402
             THEN QueryResult(ResponseOk(r.status), r.status, None,
                              Some(RawHeaders(r)), None, None)
             ELSE IF IsSome(norm)
                  THEN QueryResult(TRUE, 402, norm, Some(RawHeaders(r)), rawBody, None)
                  ELSE QueryResult(FALSE, 402, None, Some(RawHeaders(r)), rawBody,
                           Some(Msg("Failed to parse payment requirements: ", None)))

\* What queryEndpoint returns once the fetch has settled (resp = None: the
\* fetch rejected).  rawBody is response.json(), undefined when it rejects.
QueryOutcome(resp) ==
    IF ~IsSome(resp)
    THEN QueryResult(FALSE, 0, None, None, None, Some(Msg("Network error: ", None)))
    ELSE LET r == Get(resp)
             rawBody == ReadJson(r, FALSE)
             raw == GetPaymentRequiredResponse(r)
             norm == IF IsSome(raw) THEN NormalizePaymentRequired(Get(raw)) ELSE None
         IN  IF r.status # 402
             THEN QueryResult(TRUE, r.status, None, Some(RawHeaders(r)), None, None)
             ELSE IF IsSome(norm)
                  THEN QueryResult(TRUE, 402, norm, Some(RawHeaders(r)), rawBody, None)
                  ELSE QueryResult(FALSE, 402, None, Some(RawHeaders(r)), rawBody,
                           Some(Msg("Failed to parse payment requirements: ", None)))

StartQueryEndpoint ==
    /\ pc = "idle"
    /\ \E a \in CallArgs : args' = a
    /\ engine' = "queryEndpoint"
    /\ LET g == GetParseClient(parseClient, clientsBuilt)
       IN  /\ parseClient' = g.parseClient
           /\ clientsBuilt' = g.built
           /\ queryClient' = Some(g.instance)
    /\ pc' = "qe_request"
    /\ UNCHANGED <<requests, firstResponse, retryResponse, responseBody,
                   rawPaymentRequired, paymentRequired, paymentPayload,
                   authHeaders, phases, signerCalls, outcome, result, sideVars>>

\* Mutant: a 402 is probed again.
AfterQueryResponse_Again(status) ==
    IF IsPaymentRequired(status) THEN "qe_request" ELSE "done"

\* status !== 402 returns at once; a 402 goes on to read its body.
AfterQueryResponse(status) ==
    IF IsPaymentRequired(status) THEN "qe_parse" ELSE "done"

\* The one request of the probe: the caller's request, unmodified.
QE_Request ==
    /\ pc = "qe_request"
    /\ requests' = Append(requests, FetchRequest(args, Spread(DefaultHeaders, args.headers)))
    /\ \/ /\ Return(QueryOutcome(None))
          /\ UNCHANGED firstResponse
       \/ \E r \in FirstResponses(PaymentWires, {"application/json"}) :
            /\ firstResponse' = Some(r)
            /\ IF AfterQueryResponse(r.status) = "done"
               THEN Return(QueryOutcome(Some(r)))
               ELSE Continue(AfterQueryResponse(r.status))
    /\ UNCHANGED <<engine, args, retryResponse, responseBody, rawPaymentRequired,
                   paymentRequired, paymentPayload, authHeaders, phases,
                   signerCalls, queryClient, cacheVars, sideVars>>

\* The 402: body read, then parsed with the client and normalized.
QE_ParseRequirements ==
    /\ pc = "qe_parse"
    /\ LET r == Get(firstResponse)
           raw == GetPaymentRequiredResponse(r)
           res == QueryOutcome(firstResponse)
       IN  /\ responseBody' = ReadJson(r, FALSE)
           /\ rawPaymentRequired' = IF res.success THEN raw ELSE None
           /\ paymentRequired' = res.paymentRequired
           /\ Return(res)
    /\ UNCHANGED <<engine, args, requests, firstResponse, retryResponse,
                   paymentPayload, authHeaders, phases, signerCalls,
                   queryClient, cacheVars, sideVars>>

\* ------------------------------------------------ payment.ts: execute_call
\* BigInt(string) for decimal strings: None when it throws (SyntaxError).
RECURSIVE BigIntOf(_)
BigIntOf(str) ==
    IF str = Absent THEN None
    ELSE IF Len(str) = 0 THEN Some(0)
    ELSE LET last == SubSeq(str, Len(str), Len(str))
             rest == BigIntOf(SubSeq(str, 1, Len(str) - 1))
         IN  IF IsSome(rest) /\ \E d \in 0..9 : SubSeq("0123456789", d + 1, d + 1) = last
             THEN Some(10 * Get(rest)
                       + (CHOOSE d \in 0..9 : SubSeq("0123456789", d + 1, d + 1) = last))
             ELSE None

\* The decimal digits of a natural number.
RECURSIVE DigitsOf(_)
DigitsOf(n) ==
    IF n < 10 THEN SubSeq("0123456789", n + 1, n + 1)
    ELSE DigitsOf(n \div 10) \o SubSeq("0123456789", (n % 10) + 1, (n % 10) + 1)

\* formatUSDC: `$${(Number(amount) / 1_000_000).toFixed(2)}`, rounded to cents.
FormatUSDC(amount) ==
    LET cents == (amount + 5000) \div 10000
    IN  "$" \o DigitsOf(cents \div 100) \o "."
            \o DigitsOf((cents % 100) \div 10) \o DigitsOf(cents % 10)

\* What execute_call answers once makeRequest has settled; an exception
\* (makeRequest rejecting, BigInt throwing) is caught and reported.
ExecuteCallResponse(out, res, address) ==
    IF out = "thrown" THEN McpError("exception", [tool |-> "execute_call"])
    ELSE LET r == Get(res)
             accepts == IF IsSome(r.paymentRequired)
                        THEN Get(r.paymentRequired).accepts ELSE <<>>
             first == IF Len(accepts) > 0 THEN accepts[1].amount ELSE Absent
         IN  IF ~r.success
             THEN IF \E i \in 1..Len(accepts) : ~IsSome(BigIntOf(accepts[i].amount))
                  THEN McpError("exception", [tool |-> "execute_call"])
                  ELSE McpError("Request failed",
                         [success |-> FALSE, statusCode |-> r.statusCode,
                          error |-> r.error,
                          prices |-> [i \in 1..Len(accepts) |->
                                         FormatUSDC(Get(BigIntOf(accepts[i].amount)))]])
             ELSE IF IsSome(r.settlement) /\ Truthy(first) /\ ~IsSome(BigIntOf(first))
                  THEN McpError("exception", [tool |-> "execute_call"])
                  ELSE McpSuccess(
                         [success |-> TRUE, statusCode |-> r.statusCode, data |-> r.data,
                          settlement |->
                             IF IsSome(r.settlement)
                             THEN Some([transactionHash |-> Get(r.settlement).transactionHash,
                                        network |-> Get(r.settlement).network,
                                        payer |-> address,
                                        amountPaid |->
                                           IF Truthy(first)
                                           THEN Some(FormatUSDC(Get(BigIntOf(first))))
                                           ELSE None])
                             ELSE None,
                          x402Version |->
                             IF IsSome(r.paymentRequired)
                             THEN Some(Get(r.paymentRequired).x402Version) ELSE None])

\* execute_call formats what makeRequest gave it and answers.
EC_Respond ==
    /\ pc = "done" /\ engine = "makeRequest"
    /\ ~IsSome(toolResponse)
    /\ toolResponse' = Some(ExecuteCallResponse(outcome, result, SignerAddress))
    /\ UNCHANGED <<callVars, cacheVars, calls, handedOut, fnInput, fnOutput,
                   fnApplied, keyVars>>

\* The call is over; its data is discarded and the next call may start.
Finish ==
    /\ pc = "done"
    /\ queryClient' = None
    /\ toolResponse' = None
    /\ UNCHANGED <<cacheVars, calls, handedOut, fnInput, fnOutput, fnApplied, keyVars>>
    /\ pc' = "idle"
    /\ engine' = "none"
    /\ args' = NoArgs
    /\ requests' = <<>>
    /\ firstResponse' = None
    /\ retryResponse' = None
    /\ responseBody' = None
    /\ rawPaymentRequired' = None
    /\ paymentRequired' = None
    /\ paymentPayload' = None
    /\ authHeaders' = NoHeaders
    /\ phases' = <<>>
    /\ signerCalls' = 0
    /\ outcome' = "pending"
    /\ result' = None

Next ==
    \/ StartMakeRequest
    \/ MR_InitialRequest
    \/ MR_PassThrough
    \/ MR_ParseRequirements
    \/ MR_CreateSignature
    \/ MR_EncodeHeader
    \/ MR_PaidRequest
    \/ MR_PaidFailure
    \/ MR_Settlement
    \/ StartAuthedCall
    \/ AC_InitialRequest
    \/ AC_PassThrough
    \/ AC_ParseRequirements
    \/ AC_CheckChallenge
    \/ AC_CreateProof
    \/ AC_AuthedRequest
    \/ AC_AuthedResponse
    \/ StartQueryEndpoint
    \/ QE_Request
    \/ QE_ParseRequirements
    \/ EC_Respond
    \/ Finish

Spec == Init /\ [][Next]_vars

\* =========================================================== concurrent calls
\* Several tool calls run on one event loop.  A call runs without
\* interruption from one await to the next; the steps of different calls
\* interleave at the awaits of fetch, of the wallet and of the signer.  A
\* slot holds the locals of one call, plus `heard`: the answers the
\* environment gave this call, in order.

\* How a call stands after a step.
Ret(v) == [outcome |-> "returned", result |-> Some(v)]
Thrown == [outcome |-> "thrown", result |-> None]
Pending == [outcome |-> "pending", result |-> None]

\* makeRequest from the settled first fetch to the end of phase 2.
MakeRequestFirst(first) ==
    IF ~IsSome(first) THEN Ret(NetworkFailure("initial_request", None))
    ELSE LET r == Get(first)
             j == ReadJson(r, FALSE)
             t == ReadText(r, FALSE)
             t2 == ReadText(r, TRUE)
             raw == GetPaymentRequiredResponse(r)
             norm == IF IsSome(raw) THEN NormalizePaymentRequired(Get(raw)) ELSE None
         IN  IF AfterFirstResponse(r.status) = "mr_passthrough"
             THEN IF ResponseOk(r.status)
                  THEN IF IsSome(j) THEN Ret(PassThroughSuccess(r.status, j))
                       ELSE IF IsSome(t2) THEN Ret(PassThroughSuccess(r.status, t2))
                       ELSE Thrown
                  ELSE IF IsSome(t) THEN Ret(InitialHttpFailure(r.status, Get(t).value))
                       ELSE Thrown
             ELSE IF IsSome(norm) THEN Pending
                  ELSE Ret(ParseFailure(RawHeaders(r), j))

\* makeRequest from the settled createPaymentPayload to the paid fetch.
MakeRequestSigned(pr, signed) ==
    IF ~IsSome(signed) THEN Ret(SignatureFailure(pr))
    ELSE IF ~IsSome(EncodePaymentSignatureHeader(Get(signed))) THEN Thrown
    ELSE Pending

\* makeRequest from the settled paid fetch to its return.
MakeRequestPaid(pr, payload, retry) ==
    IF ~IsSome(retry) THEN Ret(NetworkFailure("paid_request", pr))
    ELSE LET r == Get(retry)
             j == ReadJson(r, FALSE)
             t == ReadText(r, FALSE)
             t2 == ReadText(r, TRUE)
         IN  IF AfterPaidResponse(r.status) = "mr_paidfail"
             THEN IF IsSome(t)
                  THEN Ret(PaidHttpFailure(r.status, Get(t).value, RawHeaders(r), pr))
                  ELSE Thrown
             ELSE IF IsSome(j)
                  THEN Ret(PaidSuccess(r.status, j, SettlementOf(r, Get(payload)), pr))
                  ELSE IF IsSome(t2)
                       THEN Ret(PaidSuccess(r.status, t2, SettlementOf(r, Get(payload)), pr))
                       ELSE Thrown

\* auth.ts: the authed_call tool.  Its whole body is inside one try; the
\* catch turns whatever was thrown into mcpError(err, {tool, url}).
ToolError == McpError("<thrown>", [tool |-> "authed_call"])

\* The tool from the settled first fetch to the signing of the challenge.
AuthToolFirst(first) ==
    IF ~IsSome(first) THEN Ret(ToolError)
    ELSE LET r == Get(first)
             data == IF ResponseOk(r.status) THEN ReadByContentType(r)
                     ELSE ReadErrorBody(r)
             raw == GetPaymentRequiredResponse(r)
             norm == IF IsSome(raw) THEN NormalizePaymentRequired(Get(raw)) ELSE None
         IN  IF ~IsPaymentRequired(r.status)
             THEN IF ~IsSome(data) THEN Ret(ToolError)
                  ELSE IF ResponseOk(r.status)
                       THEN Ret(McpSuccess([statusCode |-> r.status,
                                            headers |-> RawHeaders(r), data |-> data]))
                       ELSE Ret(McpError("HTTP <status>",
                                         [statusCode |-> r.status,
                                          headers |-> RawHeaders(r), body |-> data]))
             ELSE IF ~IsSome(norm) THEN Ret(ToolError)
             ELSE LET info == SiwxInfo(Get(norm)) IN
                  IF ~IsSome(info)
                  THEN Ret(McpError("Endpoint returned 402 but no sign-in-with-x extension found",
                           [statusCode |-> 402, x402Version |-> Get(norm).x402Version,
                            extensions |-> ExtensionKeys(Get(norm))]))
                  ELSE IF Len(MissingFields(Get(info))) > 0
                  THEN Ret(McpError("Invalid sign-in-with-x extension: missing required fields",
                           [missingFields |-> MissingFields(Get(info)),
                            receivedInfo |-> Get(info)]))
                  ELSE IF IsUnsupportedChain(Get(info).chainId)
                  THEN Ret(McpError("Solana authentication not supported",
                           [chainId |-> Get(info).chainId]))
                  ELSE Pending

\* The tool from the settled authenticated fetch to its return.
AuthToolRetry(pr, retry) ==
    IF ~IsSome(retry) THEN Ret(ToolError)
    ELSE LET r == Get(retry)
             info == Get(SiwxInfo(Get(pr)))
             data == IF ResponseOk(r.status) THEN ReadByContentType(r)
                     ELSE ReadErrorBody(r)
         IN  IF ~IsSome(data) THEN Ret(ToolError)
             ELSE IF ~ResponseOk(r.status)
                  THEN Ret(McpError("HTTP <status> after authentication",
                                    [statusCode |-> r.status,
                                     headers |-> RawHeaders(r), body |-> data,
                                     authAddress |-> SignerAddress]))
                  ELSE Ret(McpSuccess([statusCode |-> r.status,
                                       headers |-> RawHeaders(r), data |-> data,
                                       authentication |->
                                         [address |-> SignerAddress,
                                          domain |-> info.domain,
                                          chainId |-> info.chainId]]))

\* The arguments and the answers the concurrent calls are run against.
ConcArgs ==
    {NoArgs,
     [url |-> Url, method |-> "POST", body |-> Some("b"),
      headers |-> [n \in {"X-Custom"} |-> CallerValue]]}

ConcFirstResponses ==
    {Response(200, "json", "application/json", None, None),
     Response(500, "text", "text/html", None, None),
     Response(402, "json", "application/json", Some(WireV1), None),
     Response(402, "json", "application/json", Some(WireV2Auth), None)}

ConcRetryResponses ==
    {Response(200, "json", "application/json", None,
              Some([transaction |-> "0xTX", network |-> "eip155:8453",
                    payer |-> "0xPAYER"])),
     Response(200, "text", "text/html", None, None),
     Response(500, "text", "text/html", None, None)}

\* The first request of every engine.
FirstRequest(a) == FetchRequest(a, Spread(DefaultHeaders, a.headers))

\* The call in slot p moves on: next position, outcome and result.
Settle(c, next, o) ==
    [c EXCEPT !.pc = IF o.outcome = "pending" THEN next ELSE "done",
              !.outcome = o.outcome, !.result = o.result]

\* Mutant: paymentRequired is declared at module level, one for all calls.
StoreRequirements_Shared(cs, p, pr) ==
    [q \in DOMAIN cs |-> [cs[q] EXCEPT !.pr = pr]]

\* `let paymentRequired` is a local of the call: assigning it touches the
\* call's own slot only.
StoreRequirements(cs, p, pr) == [cs EXCEPT ![p].pr = pr]

\* makeRequest is entered; it runs up to the await of the first fetch.
ConcStartMakeRequest(p) ==
    /\ calls[p].pc = "idle"
    /\ \E a \in ConcArgs :
         calls' = [calls EXCEPT ![p] =
                     [IdleCall EXCEPT !.kind = "makeRequest", !.args = a,
                                      !.pc = "await_first",
                                      !.requests = <<FirstRequest(a)>>]]
    /\ UNCHANGED <<callVars, cacheVars, handedOut, fnInput, fnOutput, fnApplied,
                   toolResponse, keyVars>>

\* queryEndpoint is entered: getParseClient(), then the await of the fetch.
ConcStartQueryEndpoint(p) ==
    /\ calls[p].pc = "idle"
    /\ LET g == GetParseClient(parseClient, clientsBuilt) IN
       /\ parseClient' = g.parseClient
       /\ clientsBuilt' = g.built
       /\ handedOut' = handedOut \cup {g.instance}
       /\ \E a \in ConcArgs :
            calls' = [calls EXCEPT ![p] =
                        [IdleCall EXCEPT !.kind = "queryEndpoint", !.args = a,
                                         !.pc = "await_first",
                                         !.client = Some(g.instance),
                                         !.requests = <<FirstRequest(a)>>]]
    /\ UNCHANGED <<callVars, fnInput, fnOutput, fnApplied, toolResponse, keyVars>>

\* The authed_call tool is entered; it runs up to `await getWallet()`.
ConcStartAuthedCall(p) ==
    /\ calls[p].pc = "idle"
    /\ \E a \in ConcArgs :
         calls' = [calls EXCEPT ![p] =
                     [IdleCall EXCEPT !.kind = "authed_call", !.args = a,
                                      !.pc = "await_wallet"]]
    /\ UNCHANGED <<callVars, cacheVars, handedOut, fnInput, fnOutput, fnApplied,
                   toolResponse, keyVars>>

\* The wallet is there: getParseClient(), then the await of the first fetch.
ConcWallet(p) ==
    /\ calls[p].pc = "await_wallet"
    /\ LET g == GetParseClient(parseClient, clientsBuilt) IN
       /\ parseClient' = g.parseClient
       /\ clientsBuilt' = g.built
       /\ handedOut' = handedOut \cup {g.instance}
       /\ calls' = [calls EXCEPT ![p].pc = "await_first",
                                 ![p].client = Some(g.instance),
                                 ![p].requests = <<FirstRequest(calls[p].args)>>]
    /\ UNCHANGED <<callVars, fnInput, fnOutput, fnApplied, toolResponse, keyVars>>

\* The first fetch of call p settles (None: it rejects) and the call runs on
\* to its next await or to its end.
ConcFirstResponse(p) ==
    /\ calls[p].pc = "await_first"
    /\ \E first \in {None} \cup {Some(r) : r \in ConcFirstResponses} :
         LET c == [calls[p] EXCEPT !.first = first, !.heard = Append(@, first)]
             norm == IF IsSome(first) /\ IsSome(Get(first).wire)
                     THEN NormalizePaymentRequired(Get(Get(first).wire))
                     ELSE None
             o == IF c.kind = "makeRequest" THEN MakeRequestFirst(first)
                  ELSE IF c.kind = "queryEndpoint" THEN Ret(QueryOutcome(first))
                  ELSE AuthToolFirst(first)
             cs == [calls EXCEPT ![p] = Settle(c, "await_sign", o)]
         IN  calls' = IF o.outcome = "pending" THEN StoreRequirements(cs, p, norm)
                      ELSE cs
    /\ UNCHANGED <<callVars, cacheVars, handedOut, fnInput, fnOutput, fnApplied,
                   toolResponse, keyVars>>

\* What the signer of call c can answer, besides failing.
ConcSigned(c) ==
    IF c.kind = "makeRequest"
    THEN {x \in PaymentPayloads(Get(Get(c.first).wire)) : IsSome(x.accepted)}
    ELSE {CreateSIWxPayload(Get(SiwxInfo(Get(c.pr))), SignerAddress)}

\* The headers the retry of call c adds for the instrument.
ConcAuthHeaders(c, payload) ==
    IF c.kind = "makeRequest"
    THEN Get(EncodePaymentSignatureHeader(payload))
    ELSE [n \in {"SIGN-IN-WITH-X"} |-> EncodeSIWxHeader(payload)]

\* The signing of call p settles (None: it rejects); on success the retry
\* is issued and awaited.
ConcSign(p) ==
    /\ calls[p].pc = "await_sign"
    /\ \E signed \in {None} \cup {Some(x) : x \in ConcSigned(calls[p])} :
         LET c == [calls[p] EXCEPT !.payload = signed, !.heard = Append(@, signed)]
             o == IF c.kind = "makeRequest" THEN MakeRequestSigned(c.pr, signed)
                  ELSE IF IsSome(signed) THEN Pending ELSE Ret(ToolError)
             retry == FetchRequest(c.args,
                         Spread(Spread(DefaultHeaders, ConcAuthHeaders(c, Get(signed))),
                                c.args.headers))
         IN  calls' = [calls EXCEPT ![p] =
                         IF o.outcome = "pending"
                         THEN [Settle(c, "await_retry", o) EXCEPT
                                  !.requests = Append(@, retry)]
                         ELSE Settle(c, "done", o)]
    /\ UNCHANGED <<callVars, cacheVars, handedOut, fnInput, fnOutput, fnApplied,
                   toolResponse, keyVars>>

\* The retry of call p settles (None: it rejects) and the call ends.
ConcRetryResponse(p) ==
    /\ calls[p].pc = "await_retry"
    /\ \E retry \in {None} \cup {Some(r) : r \in ConcRetryResponses} :
         LET c == [calls[p] EXCEPT !.heard = Append(@, retry)]
             o == IF c.kind = "makeRequest" THEN MakeRequestPaid(c.pr, c.payload, retry)
                  ELSE AuthToolRetry(c.pr, retry)
         IN  calls' = [calls EXCEPT ![p] = [Settle(c, "done", o) EXCEPT !.pc = "done"]]
    /\ UNCHANGED <<callVars, cacheVars, handedOut, fnInput, fnOutput, fnApplied,
                   toolResponse, keyVars>>

\* Call p is over and its slot is free again; the cache outlives it.
ConcFinish(p) ==
    /\ calls[p].pc = "done"
    /\ calls' = [calls EXCEPT ![p] = IdleCall]
    /\ UNCHANGED <<callVars, cacheVars, handedOut, fnInput, fnOutput, fnApplied,
                   toolResponse, keyVars>>

NextConc ==
    \E p \in Procs :
        \/ ConcStartMakeRequest(p)
        \/ ConcStartQueryEndpoint(p)
        \/ ConcStartAuthedCall(p)
        \/ ConcWallet(p)
        \/ ConcFirstResponse(p)
        \/ ConcSign(p)
        \/ ConcRetryResponse(p)
        \/ ConcFinish(p)

SpecConc == Init /\ [][NextConc]_vars

\* ================================================ networks.ts and the selector
\* String.prototype.toLowerCase, letter by letter.
UpperCase == "ABCDEFGHIJKLMNOPQRSTUVWXYZ"
LowerCase == "abcdefghijklmnopqrstuvwxyz"
LowerChar(c) ==
    IF \E i \in 1..Len(UpperCase) : SubSeq(UpperCase, i, i) = c
    THEN LET i == CHOOSE k \in 1..Len(UpperCase) : SubSeq(UpperCase, k, k) = c
         IN  SubSeq(LowerCase, i, i)
    ELSE c
RECURSIVE ToLowerCase(_)
ToLowerCase(str) ==
    IF Len(str) = 0 THEN ""
    ELSE LowerChar(SubSeq(str, 1, 1)) \o ToLowerCase(SubSeq(str, 2, Len(str)))

\* V1_TO_CAIP2
V1_TO_CAIP2 ==
    ("base" :> "eip155:8453") @@ ("base-sepolia" :> "eip155:84532")
    @@ ("ethereum" :> "eip155:1") @@ ("ethereum-sepolia" :> "eip155:11155111")
    @@ ("optimism" :> "eip155:10") @@ ("arbitrum" :> "eip155:42161")
    @@ ("polygon" :> "eip155:137")

\* toCaip2: a CAIP-2 identifier is returned as it is, a known v1 name (in
\* any case) is mapped, anything else is returned as it is.
ToCaip2(network) ==
    IF StartsWith(network, "eip155:") THEN network
    ELSE IF ToLowerCase(network) \in DOMAIN V1_TO_CAIP2
         THEN V1_TO_CAIP2[ToLowerCase(network)]
         ELSE network

\* accepts.find(a => toCaip2(a.network) === target), from index i on.
RECURSIVE FindNetwork(_, _, _)
FindNetwork(accepts, target, i) ==
    IF i > Len(accepts) THEN None
    ELSE IF ToCaip2(accepts[i].network) = target THEN Some(accepts[i])
    ELSE FindNetwork(accepts, target, i + 1)

\* Mutant: the selector compares the names as they are spelled.
Selector_Spelling(preferredNetwork, accepts) ==
    LET m == {i \in 1..Len(accepts) : accepts[i].network = preferredNetwork}
    IN  IF m = {} THEN accepts[1]
        ELSE accepts[CHOOSE i \in m : \A j \in m : i <= j]

\* The selector createClient installs for a preferred network:
\* accepts.find(...) ?? accepts[0].
Selector(preferredNetwork, accepts) ==
    LET found == FindNetwork(accepts, ToCaip2(preferredNetwork), 1)
    IN  IF IsSome(found) THEN Get(found) ELSE accepts[1]

\* Sequences over S of length lo..hi.
SeqsOf(S, lo, hi) == UNION {[1..k -> S] : k \in lo..hi}

\* The preferences and the requirement lists the selector is applied to.
\* The library hands the selector the non-empty list of the entries it can
\* pay.
PreferredNetworks ==
    {"base", "BASE", "eip155:8453", "eip155:1", "Ethereum", "polygon", "solana"}
SelectNetworks == {"base", "eip155:8453", "eip155:1", "ethereum", "solana"}
SelectEntries ==
    {Entry(n, a, Absent, Absent) : n \in SelectNetworks, a \in {"1000", "2000"}}
SelectInputs ==
    {[preferredNetwork |-> n, accepts |-> a] :
        n \in PreferredNetworks, a \in SeqsOf(SelectEntries, 1, MaxAccepts)}

PureInit(inputs) ==
    /\ CallIdle /\ CacheEmpty /\ ConcIdle /\ KeysIdle
    /\ walletFile = NoFile /\ envPrivateKey = None
    /\ fnInput \in {Some(i) : i \in inputs}
    /\ fnOutput = None
    /\ fnApplied = "none"

InitSelect == PureInit(SelectInputs)

\* The library calls the selector; find does not touch the list.
ApplySelector ==
    /\ fnApplied = "none"
    /\ fnApplied' = "selector"
    /\ fnOutput' = Some([selected |-> Selector(Get(fnInput).preferredNetwork,
                                               Get(fnInput).accepts),
                         accepts |-> Get(fnInput).accepts])
    /\ UNCHANGED <<fnInput, callVars, cacheVars, calls, handedOut,
                   toolResponse, keyVars>>

NextSelect == ApplySelector

SpecSelect == InitSelect /\ [][NextSelect]_vars

\* ==================================================== protocol.ts, applied
\* Entries beyond the well-formed ones: both amount fields, an amount that is
\* not a number, a legacy amount that is not a number, an empty amount.
BothEntry == Entry("base", "1000", "3000", "https://r")
WordEntry == Entry("eip155:8453", "ten", Absent, Absent)
LegacyWordEntry == Entry("base", Absent, "ten", "https://r")
EmptyEntry == Entry("base", "", Absent, Absent)
NormEntries ==
    {V1Entry, V2Entry, BadEntry, BothEntry, WordEntry, LegacyWordEntry, EmptyEntry}

\* The raw values the normalizer is applied to: version absent, 1 or 2;
\* accepts absent or a list; with and without a top-level resource and an
\* extensions map, whatever the version says.
RawInputs ==
    {[Wire(v, a, e) EXCEPT !.resource = r] :
        v \in {None, Some(1), Some(2)},
        a \in {None} \cup {Some(x) : x \in SeqsOf(NormEntries, 0, MaxAccepts)},
        e \in {None, Some([keys |-> {"bazaar"}, info |-> None])},
        r \in {None, Some([url |-> "https://r", description |-> "d",
                           mimeType |-> "application/json"])}}

InitNorm == PureInit(RawInputs)

ApplyIsV1Response ==
    /\ fnApplied = "none"
    /\ fnApplied' = "isV1Response"
    /\ fnOutput' = Some([value |-> IsV1Response(Get(fnInput))])
    /\ UNCHANGED <<fnInput, callVars, cacheVars, calls, handedOut,
                   toolResponse, keyVars>>

ApplyNormalizePaymentRequired ==
    /\ fnApplied = "none"
    /\ fnApplied' = "normalizePaymentRequired"
    /\ fnOutput' = NormalizePaymentRequired(Get(fnInput))
    /\ UNCHANGED <<fnInput, callVars, cacheVars, calls, handedOut,
                   toolResponse, keyVars>>

NextNorm ==
    \/ ApplyIsV1Response
    \/ ApplyNormalizePaymentRequired

SpecNorm == InitNorm /\ [][NextNorm]_vars

\* ============================================ protocol.ts, extractV1Schema
\* String.prototype.toUpperCase, letter by letter.
UpperChar(c) ==
    IF \E i \in 1..Len(LowerCase) : SubSeq(LowerCase, i, i) = c
    THEN LET i == CHOOSE k \in 1..Len(LowerCase) : SubSeq(LowerCase, k, k) = c
         IN  SubSeq(UpperCase, i, i)
    ELSE c
RECURSIVE ToUpperCase(_)
ToUpperCase(str) ==
    IF Len(str) = 0 THEN ""
    ELSE UpperChar(SubSeq(str, 1, 1)) \o ToUpperCase(SubSeq(str, 2, Len(str)))

\* An object with no keys, and the spread of an optional key: ...(c && {k: v}).
NoKeys == [k \in {} |-> k]
SpreadIf(c, k, v) == IF c THEN k :> v ELSE NoKeys

\* ['POST', 'PUT', 'PATCH']
BodyMethods == {"POST", "PUT", "PATCH"}

\* body || bodyFields
BodySource(input) ==
    IF IsSome(input.body) THEN input.body ELSE input.bodyFields

\* The object literal extractV1Schema returns.
Discovery_BodyAlways(input, output) ==
    LET method == ToUpperCase(input.method)
    IN  ("input" :>
            (("type" :> "http") @@ ("method" :> method)
             @@ SpreadIf(IsSome(input.queryParams), "queryParams",
                         Get(input.queryParams))
             @@ SpreadIf(IsSome(BodySource(input)), "bodyType", "json")
             @@ SpreadIf(IsSome(BodySource(input)), "body",
                         Get(BodySource(input)))
             @@ SpreadIf(IsSome(input.headers), "headers", Get(input.headers))))
        @@ SpreadIf(IsSome(output), "output",
                    [type |-> "json", example |-> Get(output)])
Discovery(input, output) ==
    LET method == ToUpperCase(input.method)
        isBodyMethod == method \in BodyMethods
        hasBody == isBodyMethod /\ IsSome(BodySource(input))
    IN  ("input" :>
            (("type" :> "http") @@ ("method" :> method)
             @@ SpreadIf(IsSome(input.queryParams), "queryParams",
                         Get(input.queryParams))
             @@ SpreadIf(hasBody, "bodyType", "json")
             @@ SpreadIf(hasBody, "body", Get(BodySource(input)))
             @@ SpreadIf(IsSome(input.headers), "headers", Get(input.headers))))
        @@ SpreadIf(IsSome(output), "output",
                    [type |-> "json", example |-> Get(output)])

\* extractV1Schema: null is Ret(None), a descriptor Ret(Some(d)).  Reading a
\* property of a missing object throws; v1?.outputSchema and schema?.input
\* do not, and || stops at the first true operand.
ExtractV1Schema_Unguarded(accept) ==
    LET schema == accept.outputSchema IN
    IF ~IsSome(schema) THEN Thrown
    ELSE IF ~IsSome(Get(schema).input) THEN Thrown
    ELSE LET input == Get(Get(schema).input) IN
         IF input.type # "http" \/ ~Truthy(input.method) THEN Ret(None)
         ELSE IF input.discoverable = Some(FALSE) THEN Ret(None)
         ELSE Ret(Some(Discovery(input, Get(schema).output)))
ExtractV1Schema(accept) ==
    LET schema == accept.outputSchema IN
    IF ~IsSome(schema) THEN Ret(None)
    ELSE IF ~IsSome(Get(schema).input) THEN Ret(None)
    ELSE LET input == Get(Get(schema).input) IN
         IF input.type # "http" \/ ~Truthy(input.method) THEN Ret(None)
         ELSE IF input.discoverable = Some(FALSE) THEN Ret(None)
         ELSE Ret(Some(Discovery(input, Get(schema).output)))

\* The entries the extractor is applied to, typed as V1Accept declares them:
\* outputSchema and input present or not, every optional key present or not.
SchemaTypes == {"http", "HTTP", "websocket", Absent}
SchemaMethods ==
    {Absent, "", "get", "GET", "post", "Put", "PATCH", "delete", "connect"}
SchemaInputDescriptors ==
    [type : SchemaTypes,
     method : SchemaMethods,
     discoverable : {None, Some(TRUE), Some(FALSE)},
     queryParams : {None, Some([q |-> "string"])},
     body : {None, Some([prompt |-> "string"])},
     bodyFields : {None, Some([text |-> "string"])},
     headers : {None, Some([accept |-> "application/json"])}]
SchemaOutputs == {None, Some([type |-> "object"])}
SchemaAccepts ==
    {[outputSchema |-> None]}
    \cup {[outputSchema |-> Some([input |-> i, output |-> o])] :
            i \in {None} \cup {Some(d) : d \in SchemaInputDescriptors},
            o \in SchemaOutputs}

InitSchema == PureInit(SchemaAccepts)

ApplyExtractV1Schema ==
    /\ fnApplied = "none"
    /\ fnApplied' = "extractV1Schema"
    /\ fnOutput' = Some(ExtractV1Schema(Get(fnInput)))
    /\ UNCHANGED <<fnInput, callVars, cacheVars, calls, handedOut,
                   toolResponse, keyVars>>

NextSchema == ApplyExtractV1Schema

SpecSchema == InitSchema /\ [][NextSchema]_vars

\* ================================================================ keystore.ts
\* privateKeyToAccount(key).address: one address per key.
AddressOf(privateKey) == [account |-> privateKey]

\* What wallet.json and the environment can hold when the server starts.
WalletFiles ==
    {NoFile, StoredWallet(90), [StoredWallet(90) EXCEPT !.readable = FALSE]}
EnvPrivateKeys == {None, Some(91)}

InitKeys ==
    /\ CallIdle /\ CacheEmpty /\ ConcIdle /\ PureIdle /\ KeysIdle
    /\ walletFile \in WalletFiles
    /\ envPrivateKey \in EnvPrivateKeys

\* Where getWallet goes first: the environment override returns at once.
EnterGetWallet(call) ==
    IF IsSome(envPrivateKey)
    THEN [call EXCEPT !.pc = "return",
                      !.address = Some(AddressOf(Get(envPrivateKey)))]
    ELSE [call EXCEPT !.pc = "read"]

\* A tool calls getWallet().
StartGetWallet(p) ==
    /\ walletCalls[p].pc = "idle"
    /\ walletCalls' = [walletCalls EXCEPT ![p] =
                          EnterGetWallet([IdleWalletCall EXCEPT !.caller = "tool"])]
    /\ UNCHANGED <<walletFile, envPrivateKey, cachedWalletAddress, keysGenerated>>

\* getClientIdentifierHeaders(): the cached address, or getWallet().
StartGetClientIdentifierHeaders(p) ==
    /\ walletCalls[p].pc = "idle"
    /\ walletCalls' = [walletCalls EXCEPT ![p] =
          IF IsSome(cachedWalletAddress)
          THEN [IdleWalletCall EXCEPT !.caller = "headers", !.pc = "done",
                                      !.address = cachedWalletAddress,
                                      !.fromCache = TRUE]
          ELSE EnterGetWallet([IdleWalletCall EXCEPT !.caller = "headers"])]
    /\ UNCHANGED <<walletFile, envPrivateKey, cachedWalletAddress, keysGenerated>>

\* readFile settles: the stored wallet is loaded, or any failure is caught
\* and a new private key is drawn.
GW_ReadFile(p) ==
    /\ walletCalls[p].pc = "read"
    /\ IF walletFile.exists /\ walletFile.readable
       THEN /\ walletCalls' = [walletCalls EXCEPT ![p] =
                  [@ EXCEPT !.pc = "return", !.found = "loaded",
                            !.address = Some(AddressOf(walletFile.key))]]
            /\ UNCHANGED keysGenerated
       ELSE /\ keysGenerated' = keysGenerated + 1
            /\ walletCalls' = [walletCalls EXCEPT ![p] =
                  [@ EXCEPT !.pc = "write",
                            !.found = IF walletFile.exists THEN "invalid" ELSE "absent",
                            !.key = keysGenerated + 1]]
    /\ UNCHANGED <<walletFile, envPrivateKey, cachedWalletAddress>>

\* mkdir, then writeFile: the new wallet replaces whatever the file holds.
GW_WriteFile(p) ==
    /\ walletCalls[p].pc = "write"
    /\ walletFile' = StoredWallet(walletCalls[p].key)
    /\ walletCalls' = [walletCalls EXCEPT ![p] =
          [@ EXCEPT !.pc = "return", !.isNew = TRUE,
                    !.address = Some(AddressOf(walletCalls[p].key))]]
    /\ UNCHANGED <<envPrivateKey, cachedWalletAddress, keysGenerated>>

\* getWallet returns; getClientIdentifierHeaders caches the address.
GW_Return(p) ==
    /\ walletCalls[p].pc = "return"
    /\ walletCalls' = [walletCalls EXCEPT ![p] = [@ EXCEPT !.pc = "done"]]
    /\ cachedWalletAddress' =
          IF walletCalls[p].caller = "headers" THEN walletCalls[p].address
          ELSE cachedWalletAddress
    /\ UNCHANGED <<walletFile, envPrivateKey, keysGenerated>>

\* The caller is done with the wallet.
GW_Finish(p) ==
    /\ walletCalls[p].pc = "done"
    /\ walletCalls' = [walletCalls EXCEPT ![p] = IdleWalletCall]
    /\ UNCHANGED <<walletFile, envPrivateKey, cachedWalletAddress, keysGenerated>>

NextKeys ==
    /\ \E p \in Procs :
          \/ StartGetWallet(p)
          \/ StartGetClientIdentifierHeaders(p)
          \/ GW_ReadFile(p)
          \/ GW_WriteFile(p)
          \/ GW_Return(p)
          \/ GW_Finish(p)
    /\ UNCHANGED <<callVars, cacheVars, calls, handedOut, fnInput, fnOutput,
                   fnApplied, toolResponse>>

SpecKeys == InitKeys /\ [][NextKeys]_vars

\* ================================= sign-in-with-x: create, encode, parse, verify
\* parseSIWxHeader(header): the bundle the header carries.
ParseSIWxHeader(header) == Get(header.carries)

\* The message a bundle stands for: the challenge fields it repeats.
SIWxMessage(bundle) ==
    [domain |-> bundle.domain, uri |-> bundle.uri, version |-> bundle.version,
     chainId |-> bundle.chainId, nonce |-> bundle.nonce,
     issuedAt |-> bundle.issuedAt]

\* Mutant: the signature is checked against the address only, not the message.
VerifySIWxSignature_AddressOnly(bundle) ==
    IF bundle.signature.signer = bundle.address
    THEN [valid |-> TRUE, address |-> Some(bundle.signature.signer)]
    ELSE [valid |-> FALSE, address |-> None]

\* verifySIWxSignature(bundle): the signer recovered from the signature over
\* the bundle's message must be the bundle's address.  A signature made over
\* another message recovers some other address.
VerifySIWxSignature(bundle) ==
    IF /\ bundle.signature.over = SIWxMessage(bundle)
       /\ bundle.signature.signer = bundle.address
    THEN [valid |-> TRUE, address |-> Some(bundle.signature.signer)]
    ELSE [valid |-> FALSE, address |-> None]

\* The challenges signed and the accounts signing them.
SiwxAccounts == {SignerAddress, "0xOTHER"}
SiwxInputs ==
    {[info |-> [GoodInfo(c) EXCEPT !.domain = d, !.nonce = n], account |-> a] :
        c \in {"eip155:8453", "eip155:1"}, d \in {"api.example.com", "b.example"},
        n \in {"n0", "n1"}, a \in SiwxAccounts}

\* The values a field of a bundle can be changed to.
TamperedValues(bundle, field) ==
    IF field = "signature"
    THEN {[signer |-> a, over |-> bundle.signature.over] : a \in SiwxAccounts}
         \ {bundle.signature}
    ELSE IF field = "address" THEN SiwxAccounts \ {bundle.address}
    ELSE {bundle[field] \o "x"}

InitSiwx == PureInit(SiwxInputs)

\* create -> encode -> parse -> verify, as the server does with the header.
ApplyRoundTrip ==
    /\ fnApplied = "none"
    /\ fnApplied' = "roundTrip"
    /\ LET bundle == CreateSIWxPayload(Get(fnInput).info, Get(fnInput).account)
           parsed == ParseSIWxHeader(EncodeSIWxHeader(bundle))
       IN  fnOutput' = Some([created |-> bundle, presented |-> parsed,
                             verification |-> VerifySIWxSignature(parsed)])
    /\ UNCHANGED <<fnInput, callVars, cacheVars, calls, handedOut,
                   toolResponse, keyVars>>

\* create, change one field of the bundle, verify.
ApplyTamper ==
    /\ fnApplied = "none"
    /\ fnApplied' = "tamper"
    /\ LET bundle == CreateSIWxPayload(Get(fnInput).info, Get(fnInput).account)
       IN  \E field \in DOMAIN bundle : \E v \in TamperedValues(bundle, field) :
             LET tampered == [bundle EXCEPT ![field] = v]
             IN  fnOutput' = Some([created |-> bundle, presented |-> tampered,
                                   verification |-> VerifySIWxSignature(tampered)])
    /\ UNCHANGED <<fnInput, callVars, cacheVars, calls, handedOut,
                   toolResponse, keyVars>>

NextSiwx ==
    \/ ApplyRoundTrip
    \/ ApplyTamper

SpecSiwx == InitSiwx /\ [][NextSiwx]_vars

\* ================================================================== claims
InMakeRequest == engine = "makeRequest"
InAuthedCall == engine = "authed_call"
Ended == pc = "done"
Returned == pc = "done" /\ outcome = "returned"
FirstStatus == Get(firstResponse).status
RetryStatus == Get(retryResponse).status
Is2xx(status) == status \in 200..299

\* C1: one invocation of makeRequest or of handleAuthedCall issues at most two
\* network requests, whatever the server answers: the initial request and one
\* retry; there is never a third one.
C1_AtMostTwoRequests == Len(requests) <= 2

\* C1 witness: the retry itself was answered with 402 and the call ended
\* with two requests issued.
C1_Witness ==
    /\ Ended
    /\ Len(requests) = 2
    /\ IsSome(retryResponse) /\ RetryStatus = 402

\* A header value that carries an encoded instrument.
CarriesInstrument(hdrs) == \E n \in DOMAIN hdrs : hdrs[n].from = "instrument"

\* C2: when the first response of makeRequest is not 402, the call ends after
\* that one request: the requirements are not parsed, the signer is not
\* invoked and no payment header is ever sent.
C2_Non402EndsAfterOneRequest ==
    (InMakeRequest /\ IsSome(firstResponse) /\ FirstStatus # 402) =>
        /\ Len(requests) = 1
        /\ pc \in {"mr_passthrough", "done"}
        /\ phases = <<"initial_request">>
        /\ ~IsSome(rawPaymentRequired) /\ ~IsSome(paymentRequired)
        /\ signerCalls = 0
        /\ ~IsSome(paymentPayload)
        /\ \A i \in 1..Len(requests) : ~CarriesInstrument(requests[i].headers)

\* C2 witness: an error status other than 402 ended the call.
C2_Witness ==
    /\ InMakeRequest /\ Returned
    /\ IsSome(firstResponse) /\ FirstStatus = 500
    /\ Len(requests) = 1

PhaseOrder ==
    <<"initial_request", "parse_requirements", "create_signature",
      "paid_request", "settlement">>

\* C3: within one makeRequest the phases are entered in the order
\* initial_request, parse_requirements, create_signature, paid_request,
\* settlement, each only after the one before it succeeded: parsing only
\* after a 402, signing only after the 402 was parsed and normalized, the paid
\* request only after the payload was created (and encoded), the settlement
\* only after a 2xx paid response.
C3_PhasesInOrder ==
    InMakeRequest =>
        /\ phases = SubSeq(PhaseOrder, 1, Len(phases))
        /\ Len(phases) >= 2 => (IsSome(firstResponse) /\ FirstStatus = 402)
        /\ Len(phases) >= 3 =>
              /\ signerCalls = 1
              /\ IsSome(rawPaymentRequired) /\ IsSome(paymentRequired)
              /\ paymentRequired = NormalizePaymentRequired(Get(rawPaymentRequired))
        /\ Len(phases) < 3 => signerCalls = 0
        /\ Len(phases) >= 4 =>
              /\ IsSome(paymentPayload)
              /\ Len(requests) = 2
              /\ CarriesInstrument(authHeaders)
        /\ Len(phases) < 4 => Len(requests) <= 1
        /\ Len(phases) >= 5 => (IsSome(retryResponse) /\ Is2xx(RetryStatus))

\* C3 witness: a call that went through all five phases and returned.
C3_Witness ==
    /\ InMakeRequest /\ Returned
    /\ phases = PhaseOrder
    /\ Get(result).success

\* C4: no exception leaves makeRequest or handleAuthedCall: whatever step
\* fails, the call returns a structured result.
C4_NoRawException == outcome # "thrown"

\* C5: in the retry of either engine the payment / SIGN-IN-WITH-X header
\* carries the encoded instrument, whatever headers the caller passed (also
\* one of that same name), and every other caller header is passed through.
C5_RetryCarriesInstrument ==
    Len(requests) = 2 =>
        LET sent == requests[2].headers IN
        /\ \A n \in DOMAIN authHeaders :
              n \in DOMAIN sent /\ sent[n] = authHeaders[n]
        /\ \A n \in DOMAIN args.headers \ DOMAIN authHeaders :
              n \in DOMAIN sent /\ sent[n] = args.headers[n]

\* C6 as stated: every non-402 first response, 2xx or error, ends makeRequest
\* with success = true.
C6_AnyNon402Succeeds ==
    (InMakeRequest /\ Returned /\ IsSome(firstResponse) /\ FirstStatus # 402) =>
        Get(result).success

\* C6 amended: for a non-402 first response, the result makeRequest returns
\* has success = true exactly when the status is 2xx; an error status gives
\* success = false.
C6_Non402SuccessIff2xx ==
    (InMakeRequest /\ Returned /\ IsSome(firstResponse) /\ FirstStatus # 402) =>
        (Get(result).success <=> Is2xx(FirstStatus))

\* C6 witness: a 2xx first response returned as a success.
C6_Witness ==
    /\ InMakeRequest /\ Returned
    /\ IsSome(firstResponse) /\ FirstStatus = 200
    /\ Get(result).success

\* C7: when the first response of makeRequest has an error status other than
\* 402 (and its body can be read), the call returns a failure tagged
\* initial_request whose statusCode is the status and whose message carries
\* the raw body.
C7_InitialErrorStatus ==
    (/\ InMakeRequest /\ Ended
     /\ IsSome(firstResponse) /\ FirstStatus # 402 /\ ~Is2xx(FirstStatus)
     /\ Get(firstResponse).bodyKind # "broken") =>
        /\ outcome = "returned"
        /\ ~Get(result).success
        /\ Get(result).statusCode = FirstStatus
        /\ IsSome(Get(result).error)
        /\ Get(Get(result).error).phase = "initial_request"
        /\ Get(Get(result).error).message.body = Some(Get(firstResponse).body)

\* C7 witness: a 404 whose body is not JSON.
C7_Witness ==
    /\ InMakeRequest /\ Returned
    /\ IsSome(firstResponse) /\ FirstStatus = 404
    /\ Get(firstResponse).bodyKind = "text"
    /\ ~Get(result).success

\* Reading the 402 into the raw wire shape, or normalizing it, throws.
ParseThrows(resp) ==
    \/ ~IsSome(resp.wire)
    \/ ~IsSome(NormalizePaymentRequired(Get(resp.wire)))

\* C8: if reading or normalizing the 402 throws, makeRequest returns
\* success = false, statusCode 402, phase parse_requirements, with the raw
\* headers and the raw body (undefined when absent or unparsable) in details;
\* the signer is not invoked and no second request is issued.
C8_ParseFailure ==
    (/\ InMakeRequest /\ pc # "mr_parse"
     /\ IsSome(firstResponse) /\ FirstStatus = 402
     /\ ParseThrows(Get(firstResponse))) =>
        LET r == Get(firstResponse) IN
        /\ Returned
        /\ ~Get(result).success
        /\ Get(result).statusCode = 402
        /\ IsSome(Get(result).error)
        /\ Get(Get(result).error).phase = "parse_requirements"
        /\ IsSome(Get(Get(result).error).details)
        /\ Get(Get(Get(result).error).details).headers
              = [contentType |-> r.contentType, settle |-> r.settle]
        /\ Get(Get(Get(result).error).details).body
              = IF r.bodyKind = "json"
                THEN Some([parsed |-> TRUE, value |-> r.body]) ELSE None
        /\ signerCalls = 0
        /\ Len(requests) = 1

\* C8 witness: normalization threw on a 402 whose body does not parse.
C8_Witness ==
    /\ InMakeRequest /\ Returned
    /\ IsSome(firstResponse) /\ FirstStatus = 402
    /\ Get(firstResponse).bodyKind = "text"
    /\ IsSome(Get(firstResponse).wire)
    /\ ~IsSome(NormalizePaymentRequired(Get(Get(firstResponse).wire)))

\* createPaymentPayload was invoked and threw.
SigningFailed == signerCalls > 0 /\ ~IsSome(paymentPayload) /\ pc # "mr_sign"

\* C9: if creating the signed payment fails, makeRequest returns
\* success = false, phase create_signature, with the normalized requirements
\* attached, and the paid request is never issued: one request was made.
C9_SignatureFailure ==
    (InMakeRequest /\ SigningFailed) =>
        /\ Returned
        /\ ~Get(result).success
        /\ IsSome(Get(result).error)
        /\ Get(Get(result).error).phase = "create_signature"
        /\ IsSome(Get(result).paymentRequired)
        /\ Get(result).paymentRequired
              = NormalizePaymentRequired(Get(Get(firstResponse).wire))
        /\ Len(requests) = 1

\* C9 witness: signing failed on a 402 offering two requirements.
C9_Witness ==
    /\ InMakeRequest /\ Returned /\ SigningFailed
    /\ Len(Get(Get(result).paymentRequired).accepts) = 2

\* The fetch of request number n failed at transport level.
TransportFailed(n) ==
    /\ Len(requests) = n
    /\ ~IsSome(IF n = 1 THEN firstResponse ELSE retryResponse)
    /\ pc \notin {"mr_initial", "mr_paid"}

\* C10: a transport failure of a makeRequest fetch ends the call with
\* success = false, statusCode 0 and the phase that was in flight
\* (initial_request for the first request, paid_request for the retry); no
\* further request is issued.
C10_TransportFailure ==
    \A n \in 1..2 :
        (InMakeRequest /\ TransportFailed(n)) =>
            /\ Returned
            /\ ~Get(result).success
            /\ Get(result).statusCode = 0
            /\ IsSome(Get(result).error)
            /\ Get(Get(result).error).phase
                  = (IF n = 1 THEN "initial_request" ELSE "paid_request")

\* C10 witness: the paid request failed at transport level.
C10_Witness == InMakeRequest /\ Returned /\ TransportFailed(2)

\* C11: when the paid response is 2xx and its settlement confirmation is
\* absent or malformed, makeRequest still returns success = true with the
\* payload (JSON if it parses, else the raw text) and the normalized
\* requirements; settlement is undefined and there is no error descriptor.
C11_SettlementMissNonFatal ==
    (/\ InMakeRequest /\ Ended /\ Len(phases) = 5
     /\ ~IsSome(Get(retryResponse).settle)
     /\ Get(retryResponse).bodyKind # "broken") =>
        /\ outcome = "returned"
        /\ Get(result).success
        /\ Get(result).statusCode = RetryStatus
        /\ IsSome(Get(result).data)
        /\ Get(Get(result).data).value = Get(retryResponse).body
        /\ ~IsSome(Get(result).settlement)
        /\ ~IsSome(Get(result).error)
        /\ Get(result).paymentRequired = paymentRequired

\* C12: a makeRequest result produced once the requirements were parsed (a
\* create_signature failure, a paid_request failure, a paid success) carries
\* the normalized requirements; a result produced before that (initial_request
\* and parse_requirements outcomes) carries none.
C12_RequirementsAttached ==
    (InMakeRequest /\ Returned) =>
        /\ Get(result).paymentRequired = paymentRequired
        /\ IsSome(paymentRequired) <=> Len(phases) >= 3
        /\ IsSome(paymentRequired) =>
              paymentRequired = NormalizePaymentRequired(Get(Get(firstResponse).wire))

\* C12 witness: the paid request was refused with an error status.
C12_Witness ==
    /\ InMakeRequest /\ Returned
    /\ IsSome(retryResponse) /\ RetryStatus = 500
    /\ IsSome(Get(result).paymentRequired)

InQueryEndpoint == engine = "queryEndpoint"

\* C13: queryEndpoint issues exactly one network request per call, whatever
\* the server answers; it never creates or signs a payment payload and adds
\* no payment header to the request; the client it parses a 402 with is the
\* cached parse-only client that getParseClient returned.
C13_ProbeOneRequest ==
    InQueryEndpoint =>
        /\ Len(requests) <= 1
        /\ Ended => Len(requests) = 1
        /\ \A i \in 1..Len(requests) :
              /\ requests[i].headers = Spread(DefaultHeaders, args.headers)
              /\ ~CarriesInstrument(requests[i].headers)
        /\ signerCalls = 0
        /\ ~IsSome(paymentPayload) /\ ~IsSome(retryResponse)
        /\ IsSome(queryClient) /\ queryClient = parseClient
        /\ (Ended /\ IsSome(firstResponse) /\ FirstStatus = 402) =>
              /\ Returned
              /\ Get(result).paymentRequired =
                    (IF IsSome(Get(firstResponse).wire)
                     THEN NormalizePaymentRequired(Get(Get(firstResponse).wire))
                     ELSE None)

\* C13 witness: a probe of a paid endpoint ended with the requirements.
C13_Witness ==
    /\ InQueryEndpoint /\ Returned
    /\ IsSome(firstResponse) /\ FirstStatus = 402
    /\ Get(result).success /\ IsSome(Get(result).paymentRequired)
    /\ Len(requests) = 1

\* The state of the cache after any calls of getParseClient: at most one
\* client was built, and every call got the cached instance.
ParseClientShared ==
    /\ clientsBuilt <= 1
    /\ IsSome(parseClient) <=> clientsBuilt = 1
    /\ handedOut = (IF IsSome(parseClient) THEN {Get(parseClient)} ELSE {})
    /\ \A p \in Procs : IsSome(calls[p].client) => calls[p].client = parseClient

\* C14: after any number of sequential or interleaved calls of getParseClient
\* (from concurrent queryEndpoint and authed_call invocations) the parse-only
\* client has been constructed at most once, every call returned that same
\* instance, and the cached reference is never reassigned once it is set.
C14_ParseClientBuiltOnce ==
    /\ []ParseClientShared
    /\ [][IsSome(parseClient) => parseClient' = parseClient]_vars

\* C14 witness: a probe and an authenticated call are in flight together,
\* both holding a client, and a client was built.
C14_Witness ==
    /\ clientsBuilt = 1
    /\ \E p, q \in Procs :
          /\ calls[p].kind = "queryEndpoint" /\ calls[p].pc = "await_first"
          /\ calls[q].kind = "authed_call" /\ calls[q].pc = "await_first"
          /\ IsSome(calls[p].client) /\ IsSome(calls[q].client)

\* makeRequest run alone against the answers `heard`.
MakeRequestAlone(heard) ==
    IF Len(heard) = 0 THEN Pending
    ELSE LET o1 == MakeRequestFirst(heard[1]) IN
      IF o1.outcome # "pending" \/ Len(heard) = 1 THEN o1
      ELSE LET pr == NormalizePaymentRequired(Get(Get(heard[1]).wire))
               o2 == MakeRequestSigned(pr, heard[2])
           IN  IF o2.outcome # "pending" \/ Len(heard) = 2 THEN o2
               ELSE MakeRequestPaid(pr, heard[2], heard[3])

\* The requests makeRequest issues when run alone with arguments a against
\* the answers `heard`.
MakeRequestAloneRequests(a, heard) ==
    IF /\ Len(heard) >= 2
       /\ MakeRequestFirst(heard[1]).outcome = "pending"
       /\ MakeRequestSigned(None, heard[2]).outcome = "pending"
    THEN <<FirstRequest(a),
           FetchRequest(a, PaidRequestHeaders(
                              Get(EncodePaymentSignatureHeader(Get(heard[2]))),
                              a.headers))>>
    ELSE <<FirstRequest(a)>>

\* queryEndpoint run alone against the answers `heard`.
QueryEndpointAlone(heard) ==
    IF Len(heard) = 0 THEN Pending ELSE Ret(QueryOutcome(heard[1]))

\* C15: concurrent invocations of makeRequest and queryEndpoint are
\* independent: under every interleaving of their steps at the awaits, what a
\* call has sent and what it returns depend only on its own arguments and on
\* the answers it received, and equal what the call does when run alone
\* against the same answers.
C15_CallsIndependent ==
    \A p \in Procs :
        LET c == calls[p] IN
        /\ c.kind = "makeRequest" =>
              /\ [outcome |-> c.outcome, result |-> c.result] = MakeRequestAlone(c.heard)
              /\ c.requests = MakeRequestAloneRequests(c.args, c.heard)
        /\ c.kind = "queryEndpoint" =>
              /\ [outcome |-> c.outcome, result |-> c.result] = QueryEndpointAlone(c.heard)
              /\ c.requests = <<FirstRequest(c.args)>>

\* C15 witness: two payments of different requirements overlapped; one has
\* returned its paid result while the other is still awaiting its retry.
C15_Witness ==
    \E p, q \in Procs :
        /\ calls[p].kind = "makeRequest" /\ calls[q].kind = "makeRequest"
        /\ calls[p].pc = "done" /\ calls[p].outcome = "returned"
        /\ Len(calls[p].heard) = 3 /\ Get(calls[p].result).success
        /\ calls[q].pc = "await_retry"
        /\ calls[p].pr # calls[q].pr
        /\ calls[p].args # calls[q].args

\* C16: for every non-empty requirement list the selector installed with a
\* preferred network returns the entry of lowest index whose network,
\* normalized by toCaip2, equals the normalized preference, or the first entry
\* when none matches, never another entry; the list is left as it was.
C16_SelectorPicksFirstMatch ==
    fnApplied = "selector" =>
        LET acc == Get(fnInput).accepts
            want == ToCaip2(Get(fnInput).preferredNetwork)
            m == {i \in 1..Len(acc) : ToCaip2(acc[i].network) = want}
        IN  /\ Get(fnOutput).selected =
                  (IF m = {} THEN acc[1]
                   ELSE acc[CHOOSE i \in m : \A j \in m : i <= j])
            /\ Get(fnOutput).accepts = acc

\* C16 witness: the preference and the matching entry spell the network
\* differently and the match is not the first entry.
C16_Witness ==
    /\ fnApplied = "selector"
    /\ Get(fnInput).preferredNetwork = "BASE"
    /\ Len(Get(fnInput).accepts) = 2
    /\ Get(fnInput).accepts[1].network = "eip155:1"
    /\ Get(fnInput).accepts[2].network = "eip155:8453"
    /\ Get(fnOutput).selected = Get(fnInput).accepts[2]

Normalized == fnApplied = "normalizePaymentRequired"

\* C17: an input whose top-level x402Version is 2 is classified as current
\* format by isV1Response and by normalizePaymentRequired, also when its first
\* accepts entry has the legacy maxAmountRequired field.
C17_VersionMarkerWins ==
    Get(fnInput).x402Version = Some(2) =>
        /\ fnApplied = "isV1Response" => ~Get(fnOutput).value
        /\ (Normalized /\ IsSome(fnOutput)) => Get(fnOutput).x402Version = 2

\* A decimal amount in smallest units: a non-empty run of decimal digits.
IsNumeric(str) ==
    /\ str # Absent /\ Len(str) > 0
    /\ \A i \in 1..Len(str) :
          \E d \in 1..10 : SubSeq(str, i, i) = SubSeq("0123456789", d, d)

\* The amount field the classification of `raw` reads from an entry.
SourceAmount(raw, req) ==
    IF IsV1Response(raw) THEN req.maxAmountRequired ELSE req.amount

\* C18: normalizePaymentRequired is all-or-nothing: it returns a result in
\* which every entry was mapped, or it throws; it throws whenever an entry at
\* any index lacks the amount field of its classification, in particular
\* when accepts[0] has neither amount nor maxAmountRequired under either
\* declared version; a missing amount is never defaulted to zero.
C18_AllOrNothing ==
    (Normalized /\ IsSome(Get(fnInput).accepts)) =>
        LET raw == Get(fnInput)
            acc == Get(raw.accepts)
        IN  /\ (\E i \in 1..Len(acc) : ~Truthy(SourceAmount(raw, acc[i]))) =>
                  ~IsSome(fnOutput)
            /\ (/\ Len(acc) > 0 /\ IsSome(raw.x402Version)
                 /\ acc[1].amount = Absent /\ acc[1].maxAmountRequired = Absent) =>
                  ~IsSome(fnOutput)
            /\ IsSome(fnOutput) =>
                  /\ Len(Get(fnOutput).accepts) = Len(acc)
                  /\ \A i \in 1..Len(acc) :
                        LET n == Get(fnOutput).accepts[i] IN
                        /\ Truthy(n.amount) /\ n.amount = SourceAmount(raw, acc[i])
                        /\ n.scheme = acc[i].scheme /\ n.network = acc[i].network
                        /\ n.asset = acc[i].asset /\ n.payTo = acc[i].payTo
                        /\ n.maxTimeoutSeconds = acc[i].maxTimeoutSeconds

\* C18 witness: the second entry of a version 2 list has no amount and the
\* call threw.
C18_Witness ==
    /\ Normalized /\ ~IsSome(fnOutput)
    /\ Get(fnInput).x402Version = Some(2)
    /\ Get(fnInput).accepts = Some(<<V2Entry, BadEntry>>)

\* C19: in every result of normalizePaymentRequired each accepts[i].amount
\* is present and is a string that parses as a number, whichever field it
\* was taken from.
C19_AmountNumeric ==
    (Normalized /\ IsSome(fnOutput)) =>
        \A i \in 1..Len(Get(fnOutput).accepts) :
            IsNumeric(Get(fnOutput).accepts[i].amount)

\* C20: for an input classified as legacy whose entries all have a populated
\* maxAmountRequired, normalizePaymentRequired returns x402Version 1 and an
\* accepts list of the same length and order, with accepts[i].amount equal to
\* the input's accepts[i].maxAmountRequired and each entry's resource,
\* description and mimeType preserved.
C20_LegacyMapping ==
    (/\ Normalized /\ IsV1Response(Get(fnInput)) /\ IsSome(Get(fnInput).accepts)
     /\ \A i \in 1..Len(Get(Get(fnInput).accepts)) :
           Truthy(Get(Get(fnInput).accepts)[i].maxAmountRequired)) =>
        LET acc == Get(Get(fnInput).accepts) IN
        /\ IsSome(fnOutput)
        /\ Get(fnOutput).x402Version = 1
        /\ Len(Get(fnOutput).accepts) = Len(acc)
        /\ \A i \in 1..Len(acc) :
              LET n == Get(fnOutput).accepts[i] IN
              /\ n.amount = acc[i].maxAmountRequired
              /\ n.resource = acc[i].resource
              /\ n.description = acc[i].description
              /\ n.mimeType = acc[i].mimeType
              /\ n.network = acc[i].network /\ n.payTo = acc[i].payTo

\* C20 witness: a two-entry legacy list with different amounts was mapped.
C20_Witness ==
    /\ Normalized /\ IsSome(fnOutput)
    /\ Get(fnInput).x402Version = Some(1)
    /\ Get(fnInput).accepts = Some(<<BothEntry, V1Entry>>)
    /\ Get(fnOutput).accepts[1].amount = "3000"
    /\ Get(fnOutput).accepts[2].amount = "1000"

\* An input in the current format: it does not say version 1, and it says
\* version 2 or its first entry has no maxAmountRequired field.
CurrentFormat(raw) ==
    /\ raw.x402Version # Some(1)
    /\ \/ raw.x402Version = Some(2)
       \/ ~(/\ IsSome(raw.accepts) /\ Len(Get(raw.accepts)) > 0
            /\ Get(raw.accepts)[1].maxAmountRequired # Absent)

\* C21: for every current-format input, what normalizePaymentRequired
\* returns has an accepts list of the same length and order as the input with
\* accepts[i].amount equal to the input's accepts[i].amount, and its top-level
\* resource and extensions are those of the input.
C21_CurrentPassThrough ==
    (Normalized /\ CurrentFormat(Get(fnInput)) /\ IsSome(fnOutput)) =>
        LET acc == Get(Get(fnInput).accepts) IN
        /\ Len(Get(fnOutput).accepts) = Len(acc)
        /\ \A i \in 1..Len(acc) : Get(fnOutput).accepts[i].amount = acc[i].amount
        /\ Get(fnOutput).resource = Get(fnInput).resource
        /\ Get(fnOutput).extensions = Get(fnInput).extensions

\* C22: for every input classified as legacy the result has no top-level
\* resource and no extensions map, even when the input carried them; they
\* are populated only for inputs classified as current format.
C22_LegacyNoTopLevel ==
    (Normalized /\ IsSome(fnOutput)) =>
        /\ IsV1Response(Get(fnInput)) =>
              /\ ~IsSome(Get(fnOutput).resource)
              /\ ~IsSome(Get(fnOutput).extensions)
        /\ (IsSome(Get(fnOutput).resource) \/ IsSome(Get(fnOutput).extensions)) =>
              /\ ~IsV1Response(Get(fnInput))
              /\ Get(fnOutput).resource = Get(fnInput).resource
              /\ Get(fnOutput).extensions = Get(fnInput).extensions

\* C22 witness: a version 1 input that carried a resource and extensions was
\* normalized.
C22_Witness ==
    /\ Normalized /\ IsSome(fnOutput)
    /\ Get(fnInput).x402Version = Some(1)
    /\ IsSome(Get(fnInput).resource) /\ IsSome(Get(fnInput).extensions)
    /\ Len(Get(fnOutput).accepts) > 0

\* The challenge found in the normalized 402 of the call in flight.
HasChallenge == IsSome(paymentRequired) /\ IsSome(SiwxInfo(Get(paymentRequired)))
Challenge == Get(SiwxInfo(Get(paymentRequired)))
\* Every required field of the challenge is there.
WellFormed(info) == \A i \in 1..Len(RequiredFields) : Truthy(info[RequiredFields[i]])
IsEvmChain(chainId) == StartsWith(chainId, "eip155:")

\* C23: when the initial response is 402 and its normalized extensions hold
\* a well-formed sign-in-with-x challenge with an EVM chainId, authed_call
\* issues exactly two network calls, and the SIGN-IN-WITH-X header of the
\* retry decodes to a bundle whose address is the signer's and whose
\* challenge fields equal the server's.  (Stated for calls whose signing
\* succeeded.)
C23_AuthenticatedRetry ==
    (/\ InAuthedCall /\ Ended /\ HasChallenge
     /\ WellFormed(Challenge) /\ IsEvmChain(Challenge.chainId)
     /\ IsSome(paymentPayload)) =>
        /\ Len(requests) = 2
        /\ "SIGN-IN-WITH-X" \in DOMAIN requests[2].headers
        /\ LET h == requests[2].headers["SIGN-IN-WITH-X"] IN
           /\ h.from = "instrument"
           /\ Get(h.carries).address = SignerAddress
           /\ \A i \in 1..Len(RequiredFields) :
                 Get(h.carries)[RequiredFields[i]] = Challenge[RequiredFields[i]]

\* C24: for every 402 challenge whose chainId is in a namespace other than
\* the EVM one, authed_call makes exactly one network call and returns a
\* terminal unsupported-chain error without invoking the signer.
C24_NonEvmRejected ==
    (/\ InAuthedCall /\ Ended /\ HasChallenge
     /\ WellFormed(Challenge) /\ ~IsEvmChain(Challenge.chainId)) =>
        /\ Len(requests) = 1
        /\ signerCalls = 0
        /\ Returned /\ Get(result).isError

SolanaError == Some("Solana authentication not supported")

\* C25 as stated: a challenge whose chainId starts with 'solana:' is always
\* rejected with 'Solana authentication not supported' after exactly one
\* network call and before any signing; one whose chainId starts with
\* 'eip155:' is never rejected by the chain-namespace check.
C25_SolanaAlwaysRejected ==
    (InAuthedCall /\ Ended /\ HasChallenge) =>
        /\ StartsWith(Challenge.chainId, "solana:") =>
              /\ Returned /\ Get(result).error = SolanaError
              /\ Len(requests) = 1 /\ signerCalls = 0
        /\ IsEvmChain(Challenge.chainId) =>
              (Returned => Get(result).error # SolanaError)

\* C25 amended: a challenge that has every required field and whose chainId
\* starts with 'solana:' is always rejected with 'Solana authentication not
\* supported' after exactly one network call and before any signing (one
\* that lacks a field is rejected by the validation that comes first); one
\* whose chainId starts with 'eip155:' is never rejected by the
\* chain-namespace check.
C25_WellFormedSolanaRejected ==
    (InAuthedCall /\ Ended /\ HasChallenge) =>
        /\ StartsWith(Challenge.chainId, "solana:") =>
              /\ Returned /\ Get(result).isError
              /\ Len(requests) = 1 /\ signerCalls = 0
              /\ WellFormed(Challenge) => Get(result).error = SolanaError
        /\ IsEvmChain(Challenge.chainId) =>
              (Returned => Get(result).error # SolanaError)

\* C25 witness: a well-formed Solana challenge was refused.
C25_Witness ==
    /\ InAuthedCall /\ Returned /\ HasChallenge
    /\ WellFormed(Challenge) /\ StartsWith(Challenge.chainId, "solana:")
    /\ Get(result).error = SolanaError
    /\ Len(requests) = 1

\* C26: when the 402 carries no sign-in-with-x extension, authed_call returns
\* a terminal error after exactly one network call and without signing, and
\* the error's extensions field lists exactly the extension keys of the
\* normalized response (none when there are none).
C26_MissingExtension ==
    (/\ InAuthedCall /\ Ended /\ IsSome(paymentRequired)
     /\ ~(/\ IsSome(Get(paymentRequired).extensions)
          /\ "sign-in-with-x" \in Get(Get(paymentRequired).extensions).keys)) =>
        /\ Returned /\ Get(result).isError
        /\ Len(requests) = 1 /\ signerCalls = 0
        /\ Get(result).payload.extensions =
              (IF IsSome(Get(paymentRequired).extensions)
               THEN Get(Get(paymentRequired).extensions).keys ELSE {})

\* C26 witness: a 402 with another extension only ended in the error.
C26_Witness ==
    /\ InAuthedCall /\ Returned /\ IsSome(paymentRequired)
    /\ IsSome(Get(paymentRequired).extensions)
    /\ Get(Get(paymentRequired).extensions).keys = {"bazaar"}
    /\ Get(result).isError /\ Get(result).payload.extensions = {"bazaar"}

\* The elements of a sequence.
Range(seq) == {seq[i] : i \in 1..Len(seq)}

\* C27: when the challenge lacks any of domain, uri, version, chainId, nonce,
\* issuedAt, authed_call returns a terminal validation error whose
\* missingFields lists exactly the required fields that are missing, without
\* invoking the signer and without a retry; the check comes before the
\* chain-namespace check.
C27_MissingFields ==
    (InAuthedCall /\ Ended /\ HasChallenge /\ ~WellFormed(Challenge)) =>
        /\ Returned /\ Get(result).isError
        /\ Get(result).error =
              Some("Invalid sign-in-with-x extension: missing required fields")
        /\ LET mf == Get(result).payload.missingFields IN
           /\ Range(mf) = {f \in Range(RequiredFields) : ~Truthy(Challenge[f])}
           /\ Len(mf) = Cardinality(Range(mf))
        /\ signerCalls = 0
        /\ Len(requests) = 1

\* C27 witness: a Solana challenge with two fields missing got the
\* validation error, not the chain error.
C27_Witness ==
    /\ InAuthedCall /\ Returned /\ HasChallenge
    /\ StartsWith(Challenge.chainId, "solana:")
    /\ Get(result).isError
    /\ Get(result).payload.missingFields = <<"domain", "issuedAt">>

\* C28: when the initial response of authed_call is not 402, exactly one
\* network call is made, no challenge is parsed and the signer is not
\* invoked; the result is a success for a 2xx status and an error carrying
\* the status and the body for any other status.  (Stated for bodies whose
\* stream does not fail and, on success, whose content type is true.)
C28_AuthedPassThrough ==
    (/\ InAuthedCall /\ Ended /\ IsSome(firstResponse) /\ FirstStatus # 402
     /\ Get(firstResponse).bodyKind # "broken"
     /\ (Is2xx(FirstStatus) /\ Get(firstResponse).contentType = "application/json")
           => Get(firstResponse).bodyKind = "json") =>
        /\ Len(requests) = 1
        /\ ~IsSome(rawPaymentRequired) /\ ~IsSome(paymentRequired)
        /\ signerCalls = 0
        /\ Returned
        /\ Get(result).isError = ~Is2xx(FirstStatus)
        /\ Get(result).payload.statusCode = FirstStatus
        /\ ~Is2xx(FirstStatus) =>
              Get(Get(result).payload.body).value = Get(firstResponse).body

\* The extractor has been applied; its entry, and what it gave back.
Extracted == fnApplied = "extractV1Schema"
SchemaAccept == Get(fnInput)
SchemaResult == Get(fnOutput)
HasInputDescriptor ==
    IsSome(SchemaAccept.outputSchema) /\ IsSome(Get(SchemaAccept.outputSchema).input)
InputDescriptor == Get(Get(SchemaAccept.outputSchema).input)
GaveDescriptor ==
    /\ Extracted /\ SchemaResult.outcome = "returned"
    /\ IsSome(Get(SchemaResult.result))
Descriptor == Get(Get(SchemaResult.result))

\* C29: extractV1Schema returns null, without throwing, whenever the entry
\* has no outputSchema or no input descriptor, the input type is not 'http',
\* the method is missing or empty, or input.discoverable is false; in every
\* other case it returns a descriptor.
C29_NullOrDescriptor ==
    Extracted =>
        /\ SchemaResult.outcome = "returned"
        /\ (Get(SchemaResult.result) = None) <=>
              \/ ~IsSome(SchemaAccept.outputSchema)
              \/ ~HasInputDescriptor
              \/ InputDescriptor.type # "http"
              \/ InputDescriptor.method \in {Absent, ""}
              \/ InputDescriptor.discoverable = Some(FALSE)

\* An otherwise extractable entry that opts out gets null.
C29_Witness ==
    /\ Extracted /\ HasInputDescriptor
    /\ InputDescriptor.type = "http"
    /\ InputDescriptor.method = "get"
    /\ InputDescriptor.discoverable = Some(FALSE)
    /\ SchemaResult = Ret(None)

\* The methods applied, in capitals.
UpperCased ==
    ("get" :> "GET") @@ ("GET" :> "GET") @@ ("post" :> "POST")
    @@ ("Put" :> "PUT") @@ ("PATCH" :> "PATCH") @@ ("delete" :> "DELETE")
    @@ ("connect" :> "CONNECT")

\* C30: for every extractable entry the method of the result is the
\* upper-cased method, and the result has the keys bodyType ('json') and body
\* exactly when that method is POST, PUT or PATCH and the source declares
\* body or bodyFields; for any other method it has neither key, even when
\* the source declares body fields.
C30_BodyOnlyForBodyMethods ==
    GaveDescriptor =>
        LET in == Descriptor.input
            declared == IsSome(InputDescriptor.body)
                            \/ IsSome(InputDescriptor.bodyFields)
            wanted == in.method \in {"POST", "PUT", "PATCH"} /\ declared
        IN  /\ in.method = UpperCased[InputDescriptor.method]
            /\ ("body" \in DOMAIN in) <=> wanted
            /\ ("bodyType" \in DOMAIN in) <=> wanted
            /\ wanted =>
                  /\ in.bodyType = "json"
                  /\ Some(in.body) \in
                        {InputDescriptor.body, InputDescriptor.bodyFields}

\* A DELETE entry that declares a body is extracted without one.
C30_Witness ==
    /\ GaveDescriptor
    /\ InputDescriptor.method = "delete"
    /\ IsSome(InputDescriptor.body)
    /\ Descriptor.input.method = "DELETE"
    /\ DOMAIN Descriptor.input \cap {"body", "bodyType"} = {}

\* C32: for every non-402 status of the probed endpoint, error statuses
\* included, queryEndpoint returns success = true with that status code, the
\* raw headers and no paymentRequired; it returns success = false only for a
\* transport failure (statusCode 0) or for a 402 whose requirements cannot be
\* parsed or normalized.
C32_ProbePassThrough ==
    (InQueryEndpoint /\ Ended) =>
        /\ Returned
        /\ (IsSome(firstResponse) /\ FirstStatus # 402) =>
              /\ Get(result).success
              /\ Get(result).statusCode = FirstStatus
              /\ Get(result).rawHeaders = Some(RawHeaders(Get(firstResponse)))
              /\ ~IsSome(Get(result).paymentRequired)
        /\ ~Get(result).success =>
              \/ ~IsSome(firstResponse) /\ Get(result).statusCode = 0
              \/ /\ IsSome(firstResponse) /\ FirstStatus = 402
                 /\ Get(result).statusCode = 402
                 /\ LET raw == Get(firstResponse).wire
                    IN  ~IsSome(raw) \/ ~IsSome(NormalizePaymentRequired(Get(raw)))

\* A server error of the probed endpoint is reported as a successful probe.
C32_Witness ==
    /\ InQueryEndpoint /\ Returned
    /\ IsSome(firstResponse) /\ FirstStatus = 500
    /\ Get(result).success /\ Get(result).statusCode = 500

\* C33: the retry request of makeRequest and of authed_call has the URL, the
\* method and the serialized body of the initial request of that call; the
\* two requests differ in their headers only, and there only by the payment
\* or authentication header: the retry carries that header, every header
\* under another name is the one of the initial request, and when the caller
\* passed no header of that name the header is the encoded instrument.
C33_RetrySameCall ==
    ((InMakeRequest \/ InAuthedCall) /\ Len(requests) = 2) =>
        LET first == requests[1]
            retry == requests[2]
            added == DOMAIN authHeaders
        IN  /\ retry.url = first.url
            /\ retry.method = first.method
            /\ retry.body = first.body
            /\ added # {}
            /\ DOMAIN retry.headers = DOMAIN first.headers \cup added
            /\ \A n \in DOMAIN first.headers \ added :
                  retry.headers[n] = first.headers[n]
            /\ \A n \in added \ DOMAIN args.headers :
                  retry.headers[n] = authHeaders[n]

\* A POST with a body and a caller header was retried with a payment header.
C33_Witness ==
    /\ InMakeRequest /\ Len(requests) = 2
    /\ requests[2].method = "POST" /\ IsSome(requests[2].body)
    /\ "X-Custom" \in DOMAIN requests[1].headers
    /\ "PAYMENT-SIGNATURE" \in DOMAIN requests[2].headers
    /\ "PAYMENT-SIGNATURE" \notin DOMAIN requests[1].headers

\* C35: when a settlement confirmation is parsed, the makeRequest result has
\* a settlement whose payer is the confirmation's payer field when that field
\* is not blank, and otherwise the counterparty (payTo) declared in the
\* payment instrument that was sent; an instrument that declares none leaves
\* the payer empty.
C35_SettlementPayer ==
    (/\ InMakeRequest /\ Returned /\ IsSome(retryResponse)
     /\ Is2xx(RetryStatus) /\ IsSome(Get(retryResponse).settle)) =>
        LET confirmation == Get(Get(retryResponse).settle)
            instrument == Get(paymentPayload)
        IN  /\ IsSome(Get(result).settlement)
            /\ Get(Get(result).settlement).payer =
                  IF confirmation.payer \notin {"", Absent}
                  THEN confirmation.payer
                  ELSE IF IsSome(instrument.accepted)
                       THEN Get(instrument.accepted).payTo
                       ELSE ""

\* A confirmation with a blank payer: the payer is the instrument's payTo.
C35_Witness ==
    /\ InMakeRequest /\ Returned /\ IsSome(retryResponse)
    /\ IsSome(Get(retryResponse).settle)
    /\ Get(Get(retryResponse).settle).payer = ""
    /\ IsSome(Get(paymentPayload).accepted)
    /\ Get(Get(result).settlement).payer = "0xPAYTO"

\* C38: the x402Version that normalizePaymentRequired reports is 1 exactly
\* when the input was classified as legacy and mapped from maxAmountRequired:
\* an input mapped through the current-format path never reports version 1,
\* inputs that omit x402Version included.
C38_VersionOneIffLegacy ==
    (Normalized /\ IsSome(fnOutput)) =>
        (Get(fnOutput).x402Version = 1 <=> IsV1Response(Get(fnInput)))

\* C40: every result returned by makeRequest has success = false exactly
\* when it carries an error descriptor, and the phase of that descriptor is
\* one of initial_request, parse_requirements, create_signature and
\* paid_request: no returned result carries the phase settlement.
C40_ErrorIffFailure ==
    (InMakeRequest /\ Returned) =>
        /\ ~Get(result).success <=> IsSome(Get(result).error)
        /\ IsSome(Get(result).error) =>
              Get(Get(result).error).phase \in
                  {"initial_request", "parse_requirements",
                   "create_signature", "paid_request"}

\* A paid call whose confirmation was missing returned a success after the
\* settlement phase.
C40_Witness ==
    /\ InMakeRequest /\ Returned
    /\ phases[Len(phases)] = "settlement"
    /\ ~IsSome(Get(retryResponse).settle)
    /\ Get(result).success /\ ~IsSome(Get(result).error)

\* No call of the keystore is in flight.
KeystoreQuiet == \A p \in Procs : walletCalls[p].pc \in {"idle", "done"}

\* C34: the cached parse-only client is the only state that survives a call:
\* between calls no other module-level variable holds a value computed during
\* an earlier call, and no call is answered from such a value.
C34_OnlyParseClientSurvives ==
    /\ (\A p \in Procs : walletCalls[p].pc = "idle") => ~IsSome(cachedWalletAddress)
    /\ \A p \in Procs : ~walletCalls[p].fromCache

\* A getWallet call that found no wallet file and has returned.
ReturnedNewWallet(p) ==
    /\ walletCalls[p].pc = "done"
    /\ walletCalls[p].found = "absent"

\* C36: with no X402_PRIVATE_KEY override and no wallet file on disk, the
\* getWallet calls that run at the same time (from tools or from
\* getClientIdentifierHeaders) all return the same address, and once all
\* calls have completed that address is the one stored in wallet.json.
C36_SameWalletForAll ==
    ~IsSome(envPrivateKey) =>
        \A p, q \in Procs :
            (ReturnedNewWallet(p) /\ ReturnedNewWallet(q)) =>
                /\ walletCalls[p].address = walletCalls[q].address
                /\ KeystoreQuiet =>
                      walletCalls[p].address = Some(AddressOf(walletFile.key))

\* C37: getWallet writes wallet.json only when no wallet file exists: once a
\* file exists no step of any getWallet call replaces the private key stored
\* in it, also when the file cannot be read or parsed.
C37_StoredKeyNeverReplaced ==
    [][walletFile.exists => walletFile'.key = walletFile.key]_vars

\* execute_call answered with a settlement that states the amount paid, for
\* an instrument that names the requirement it accepted.
ReportsAmountPaid ==
    /\ IsSome(toolResponse) /\ ~Get(toolResponse).isError
    /\ IsSome(Get(toolResponse).payload.settlement)
    /\ IsSome(Get(Get(toolResponse).payload.settlement).amountPaid)
    /\ IsSome(paymentPayload) /\ IsSome(Get(paymentPayload).accepted)
AcceptedAmount ==
    LET accepted == Get(Get(paymentPayload).accepted)
    IN  IF Truthy(accepted.amount) THEN accepted.amount
        ELSE accepted.maxAmountRequired

\* C39: when execute_call reports a settlement, its amountPaid is the
\* (formatted) amount of the requirement the payment instrument was created
\* for, also when the server offers several requirements and the accepted
\* one is not the first entry of the list.
C39_AmountPaidIsAccepted ==
    ReportsAmountPaid =>
        Get(Get(Get(toolResponse).payload.settlement).amountPaid)
            = FormatUSDC(Get(BigIntOf(AcceptedAmount)))

\* The fields in which the bundle presented differs from the bundle created.
ChangedFields ==
    {f \in DOMAIN Get(fnOutput).created :
        Get(fnOutput).presented[f] # Get(fnOutput).created[f]}

====
